---- MODULE Spec2Model ----
(***************************************************************************)
(* A model of the fileman shell: the navigation history                    *)
(* (fileman/src/navigation.rs), the toolbar and its delete / properties    *)
(* handshake (fileman/src/toolbar.rs) and the widgets of                   *)
(* fileman/src/window.rs that are driven by one cooperative UI tick.       *)
(*                                                                         *)
(* Paths are sequences of components; an absolute path starts with the     *)
(* root component "/".  Rust indices are 0-based: path_history[i] of the   *)
(* source is path_history[i + 1] here.                                     *)
(***************************************************************************)
EXTENDS Integers, Sequences, FiniteSets, TLC

\* ------------------------------------------------------------------ bounds
\* longest path_history explored
MaxHist == 3
\* most navigation messages waiting in one channel
MaxQueue == 2
\* most selection requests waiting for their answer
MaxRequests == 2
\* most selection responses, selection changes and FileList operations
\* waiting in their channels
MaxPending == 1
\* most operation requests and most status messages waiting
MaxOps == 3
\* most confirmation popups open at once
MaxDialogs == 2
\* the FileListWrapper ticks counted after the input stopped
MaxQuiet == 3
\* most calls of take_navigation_receiver on one sidebar
MaxTakes == 3

\* ------------------------------------------------------------------- paths
Root == <<"/">>
Home == <<"/", "home">>
Docs == <<"/", "home", "docs">>
DocsA == <<"/", "home", "docs", "a">>
Pics == <<"/", "home", "pics">>
\* the directories the user can navigate to
Dirs == {Root, Home, Docs, DocsA, Pics}
\* two files of Docs, the operands of delete / properties
FileA == <<"/", "home", "docs", "a.txt">>
FileB == <<"/", "home", "docs", "b.txt">>
Files == {FileA, FileB}
\* paths that do not exist at the start
Photos == <<"/", "home", "photos">>
Nowhere == <<"/", "nowhere">>
\* a directory whose name holds a word of the status messages
DeletedDir == <<"/", "home", "Deleted">>

\* Option<T>
None == [some |-> FALSE]
Some(x) == [some |-> TRUE, val |-> x]

\* Path::parent: None for "/" and for the empty path, else the path
\* without its last component
parent(p) ==
  IF p = <<>> \/ p = Root THEN None ELSE Some(SubSeq(p, 1, Len(p) - 1))

\* ------------------------------------------------------------ StateSignal
\* A StateSignal holds a value; sets counts the set_value calls made on it
\* since the current step began (observation only, the code never reads it).
StateSignal_new(v) == [value |-> v, sets |-> 0]
set_value(sig, v) == [value |-> v, sets |-> sig.sets + 1]

\* -------------------------------------------------------- NavigationState
NavigationState_new(initial_path) ==
  [path_history |-> <<initial_path>>,
   history_position |-> 0,
   current_path |-> StateSignal_new(initial_path)]

\* get_current_path, and the `current` of navigate_to and parent_path: the
\* entry at history_position, the signal's value if the index is out of range
get_current_path(n) ==
  IF n.history_position < Len(n.path_history)
    THEN n.path_history[n.history_position + 1]
    ELSE n.current_path.value

can_go_back(n) == n.history_position > 0

\* len() - 1 is usize arithmetic: on an empty history it wraps to usize::MAX
\* (release) and every position is below it
can_go_forward(n) ==
  IF Len(n.path_history) = 0 THEN TRUE
  ELSE n.history_position < Len(n.path_history) - 1

\* variants of navigate_to with one step of it left out or changed
navigate_to_OffByOne(n, path) ==
  IF get_current_path(n) # path
    THEN LET h == Append(SubSeq(n.path_history, 1, n.history_position + 1), path)
         IN [path_history |-> h,
             history_position |-> Len(h),
             current_path |-> set_value(n.current_path, path)]
    ELSE n

navigate_to_AlwaysSignal(n, path) ==
  IF get_current_path(n) # path
    THEN LET h == Append(SubSeq(n.path_history, 1, n.history_position + 1), path)
         IN [path_history |-> h,
             history_position |-> Len(h) - 1,
             current_path |-> set_value(n.current_path, path)]
    ELSE [n EXCEPT !.current_path = set_value(n.current_path, path)]

navigate_to_NoTruncate(n, path) ==
  IF get_current_path(n) # path
    THEN [path_history |-> Append(n.path_history, path),
          history_position |-> Len(n.path_history),
          current_path |-> set_value(n.current_path, path)]
    ELSE n

navigate_to_NoCompare(n, path) ==
  LET h == Append(SubSeq(n.path_history, 1, n.history_position + 1), path)
  IN [path_history |-> h,
      history_position |-> Len(h) - 1,
      current_path |-> set_value(n.current_path, path)]

navigate_to(n, path) ==
  IF get_current_path(n) # path
    THEN LET h == Append(SubSeq(n.path_history, 1, n.history_position + 1), path)
         IN [path_history |-> h,
             history_position |-> Len(h) - 1,
             current_path |-> set_value(n.current_path, path)]
    ELSE n

\* go_back without its bound check
go_back_Unguarded(n) ==
  LET pos == IF n.history_position > 0 THEN n.history_position - 1 ELSE 0
      path == n.path_history[pos + 1]
  IN [nav |-> [n EXCEPT !.history_position = pos,
                        !.current_path = set_value(n.current_path, path)],
      ret |-> Some(path)]

\* go_back without its signal write
go_back_NoSignal(n) ==
  IF can_go_back(n)
    THEN LET pos == n.history_position - 1
             path == n.path_history[pos + 1]
         IN [nav |-> [n EXCEPT !.history_position = pos],
             ret |-> Some(path)]
    ELSE [nav |-> n, ret |-> None]

\* returns the new state and the Option<PathBuf> result
go_back(n) ==
  IF can_go_back(n)
    THEN LET pos == n.history_position - 1
             path == n.path_history[pos + 1]
         IN [nav |-> [n EXCEPT !.history_position = pos,
                               !.current_path = set_value(n.current_path, path)],
             ret |-> Some(path)]
    ELSE [nav |-> n, ret |-> None]

\* go_forward without its signal write
go_forward_NoSignal(n) ==
  IF can_go_forward(n)
    THEN LET pos == n.history_position + 1
             path == n.path_history[pos + 1]
         IN [nav |-> [n EXCEPT !.history_position = pos],
             ret |-> Some(path)]
    ELSE [nav |-> n, ret |-> None]

go_forward(n) ==
  IF can_go_forward(n)
    THEN LET pos == n.history_position + 1
             path == n.path_history[pos + 1]
         IN [nav |-> [n EXCEPT !.history_position = pos,
                               !.current_path = set_value(n.current_path, path)],
             ret |-> Some(path)]
    ELSE [nav |-> n, ret |-> None]

\* variant: the root is its own parent
parent_path_RootOfRoot(n) ==
  IF get_current_path(n) = Root THEN Some(Root) ELSE parent(get_current_path(n))

parent_path(n) == parent(get_current_path(n))

\* ---------------------------------------------------------------- state
VARIABLES
  navigation,     \* Arc<Mutex<NavigationState>> (app.rs)
  chan,           \* the unbounded mpsc channels, one field per receiver
  toolbar,        \* ToolbarWrapper's flags and button-state signals
  file_list,      \* FileListWrapper: the FileList's path, entries and
                  \* selection, and pending_delete_confirmation
  popups,         \* the confirmation popups that are open
  location_bar,   \* LocationBarWrapper
  status_bar,     \* StatusBarWrapper
  fs,             \* the paths that exist on disk
  frame,          \* the widget the UI loop updates next
  sidebar,        \* FilemanSidebar
  ghost           \* observation only: what the last step called and sent

vars == <<navigation, chan, toolbar, file_list, popups, location_bar,
          status_bar, fs, frame, sidebar, ghost>>

\* the whole program state as one record, so that a handler is a function
World ==
  [navigation |-> navigation, chan |-> chan, toolbar |-> toolbar,
   file_list |-> file_list, popups |-> popups, location_bar |-> location_bar,
   status_bar |-> status_bar, fs |-> fs, frame |-> frame, sidebar |-> sidebar,
   ghost |-> ghost]

SetWorld(w) ==
  /\ navigation' = w.navigation
  /\ chan' = w.chan
  /\ toolbar' = w.toolbar
  /\ file_list' = w.file_list
  /\ popups' = w.popups
  /\ location_bar' = w.location_bar
  /\ status_bar' = w.status_bar
  /\ fs' = w.fs
  /\ frame' = w.frame
  /\ sidebar' = w.sidebar
  /\ ghost' = w.ghost

\* quiet observes the time since the user and the disk went quiet: ticks is 0
\* while input goes on, then 1 + the FileListWrapper ticks made since;
\* settled counts those of them that started with nothing in flight; worked
\* tells whether the first settled tick called set_path or the history.
NotQuiet == [ticks |-> 0, settled |-> 0, worked |-> FALSE]

\* back_from observes, through the rest of a frame, the history position from
\* which the frame's ToolbarWrapper tick went back, when a go_back that moved
\* was the last thing the tick did to the history.
BackOf(calls) ==
  IF calls # <<>> /\ calls[Len(calls)].op = "go_back" /\ calls[Len(calls)].ret.some
    THEN Some(calls[Len(calls)].pre.history_position)
    ELSE None

\* A step starts with an empty observation log and a signal nobody has set.
BeginStep(w, name) ==
  [w EXCEPT !.navigation.current_path.sets = 0,
            !.ghost = [step |-> name, nav_calls |-> <<>>,
                       set_paths |-> <<>>,
                       delete_runs |-> <<>>, responses |-> <<>>,
                       overwritten |-> None, ops |-> <<>>,
                       internal_nav |-> None, quiet |-> w.ghost.quiet,
                       nav_locked |-> FALSE, under_lock |-> <<>>,
                       takes |-> w.ghost.takes, pressed |-> <<>>,
                       typed |-> None,
                       back_from |->
                         IF name \in {"ToolbarWrapper", "menu"} THEN None
                         ELSE IF w.ghost.step = "ToolbarWrapper"
                           THEN BackOf(w.ghost.nav_calls)
                           ELSE w.ghost.back_from]]

\* takes observes what each call of take_navigation_receiver on the sidebar
\* returned, in the order of the calls.

\* every channel within the explored capacity
Capacity ==
  [sidebar_navigation_rx |-> MaxQueue, toolbar_navigation_rx |-> MaxQueue,
   operation_rx |-> MaxOps, status_rx |-> MaxOps,
   file_list_operation_rx |-> MaxPending,
   selected_paths_request_rx |-> MaxRequests,
   selected_paths_response_rx |-> MaxPending,
   selection_change_rx |-> MaxPending]

Bounded(w) ==
  /\ \A f \in DOMAIN w.chan : Len(w.chan[f]) <= Capacity[f]
  /\ Len(w.popups) <= MaxDialogs
  /\ Len(w.navigation.path_history) <= MaxHist

\* HOME of the environment (toolbar.rs reads it at each Home action)
EnvHome == Home

\* --------------------------------------------- logged NavigationState calls
NavCall(op, arg, pre, post, ret) ==
  [op |-> op, arg |-> arg, pre |-> pre, post |-> post, ret |-> ret]

W_navigate_to(w, path) ==
  LET post == navigate_to(w.navigation, path)
  IN [w EXCEPT !.navigation = post,
               !.ghost.nav_calls =
                  Append(@, NavCall("navigate_to", Some(path), w.navigation, post, None))]

W_go_back(w) ==
  LET r == go_back(w.navigation)
  IN [w EXCEPT !.navigation = r.nav,
               !.ghost.nav_calls =
                  Append(@, NavCall("go_back", None, w.navigation, r.nav, r.ret))]

W_go_forward(w) ==
  LET r == go_forward(w.navigation)
  IN [w EXCEPT !.navigation = r.nav,
               !.ghost.nav_calls =
                  Append(@, NavCall("go_forward", None, w.navigation, r.nav, r.ret))]

\* the Up action: navigate to the parent if there is one
W_up(w) ==
  LET p == parent_path(w.navigation)
  IN IF p.some THEN W_navigate_to(w, p.val) ELSE w

\* ------------------------------------------------------- NavigationAction
Back == [kind |-> "Back"]
Forward == [kind |-> "Forward"]
Up == [kind |-> "Up"]
GoHome == [kind |-> "Home"]
NavigateTo(p) == [kind |-> "NavigateTo", path |-> p]
\* the actions sent here: NavigateTo to the directories below the home
NavigationActions ==
  {Back, Forward, Up, GoHome} \cup {NavigateTo(p) : p \in {Docs, DocsA, Pics}}

\* --------------------------------------------------- FileOperationRequest
\* origin is observation only: the selection request a path list answers
\* ("delete" or "properties"), "" when it came from no selection response
Delete(paths, origin) == [op |-> "Delete", paths |-> paths, origin |-> origin]
CreateDirectory(par, name) == [op |-> "CreateDirectory", parent |-> par, name |-> name]
Rename(from, to) == [op |-> "Rename", from |-> from, to |-> to]
Properties(paths) == [op |-> "Properties", paths |-> paths]

\* the guard of navigation.lock() taken and dropped: nav_locked tells whether
\* the NavigationState mutex is held, under_lock lists the channel sends and
\* directory enumerations made while it is
Lock(w) == [w EXCEPT !.ghost.nav_locked = TRUE]
Unlock(w) == [w EXCEPT !.ghost.nav_locked = FALSE]
UnderLock(w, effect, on) ==
  IF w.ghost.nav_locked
    THEN [w EXCEPT !.ghost.under_lock = Append(@, [effect |-> effect, on |-> on])]
    ELSE w

Send(w, f, msg) == UnderLock([w EXCEPT !.chan[f] = Append(@, msg)], "send", f)

\* ------------------------------------------------- ToolbarWrapper::update
\* the name of a new folder, from the seconds since the epoch
NewFolderName(now) == "New Folder " \o ToString(now)

ApplyNavigationAction(w, action) ==
  Unlock(CASE action.kind = "Back" -> W_go_back(Lock(w))
           [] action.kind = "Forward" -> W_go_forward(Lock(w))
           [] action.kind = "Up" -> W_up(Lock(w))
           [] action.kind = "Home" -> W_navigate_to(Lock(w), EnvHome)
           [] action.kind = "NavigateTo" -> W_navigate_to(Lock(w), action.path))

RECURSIVE DrainNavigationActions(_)
DrainNavigationActions(w) ==
  IF w.chan.toolbar_navigation_rx = <<>> THEN w
  ELSE DrainNavigationActions(
         ApplyNavigationAction(
           [w EXCEPT !.chan.toolbar_navigation_rx = Tail(@)],
           Head(w.chan.toolbar_navigation_rx)))

\* variant: the current path is read under the lock, the request is sent
\* after the guard is dropped
HandleNewFolder_SendUnlocked(w, now) ==
  IF w.toolbar.new_folder_requested
    THEN Send(Unlock(Lock([w EXCEPT !.toolbar.new_folder_requested = FALSE])),
              "operation_rx",
              CreateDirectory(get_current_path(w.navigation), NewFolderName(now)))
    ELSE w

\* variant: the flag stays set
HandleNewFolder_NoReset(w, now) ==
  IF w.toolbar.new_folder_requested
    THEN Unlock(Send(Lock(w), "operation_rx",
                     CreateDirectory(get_current_path(w.navigation),
                                     NewFolderName(now))))
    ELSE w

\* the request is sent inside `if let Ok(nav) = self.navigation.lock()`
HandleNewFolder(w, now) ==
  IF w.toolbar.new_folder_requested
    THEN Unlock(Send(Lock([w EXCEPT !.toolbar.new_folder_requested = FALSE]),
                     "operation_rx",
                     CreateDirectory(get_current_path(w.navigation),
                                     NewFolderName(now))))
    ELSE w

HandleProperties(w) ==
  IF w.toolbar.properties_requested
    THEN Send([w EXCEPT !.toolbar.properties_requested = FALSE,
                        !.toolbar.pending_properties_request = TRUE],
              "selected_paths_request_rx", [origin |-> "properties"])
    ELSE w

SendDelete(w, resp) == Send(w, "operation_rx", Delete(resp.paths, resp.origin))

\* variants of HandleResponse: without the check of pending_delete_request,
\* and without its reset
HandleResponse_NoFlagCheck(w, resp) ==
  IF resp.paths = <<>> THEN w
  ELSE IF w.toolbar.pending_properties_request
    THEN Send([w EXCEPT !.toolbar.pending_properties_request = FALSE],
              "operation_rx", Properties(resp.paths))
  ELSE SendDelete([w EXCEPT !.toolbar.pending_delete_request = FALSE], resp)

HandleResponse_NoReset(w, resp) ==
  IF resp.paths = <<>> THEN w
  ELSE IF w.toolbar.pending_properties_request
    THEN Send([w EXCEPT !.toolbar.pending_properties_request = FALSE],
              "operation_rx", Properties(resp.paths))
  ELSE IF w.toolbar.pending_delete_request
    THEN SendDelete(w, resp)
  ELSE w

\* one message of the selection-response channel
HandleResponse(w, resp) ==
  IF resp.paths = <<>> THEN w
  ELSE IF w.toolbar.pending_properties_request
    THEN Send([w EXCEPT !.toolbar.pending_properties_request = FALSE],
              "operation_rx", Properties(resp.paths))
  ELSE IF w.toolbar.pending_delete_request
    THEN SendDelete([w EXCEPT !.toolbar.pending_delete_request = FALSE], resp)
  ELSE w

\* what the toolbar made of one response: the flag before and after, and
\* the requests it sent
LogResponse(before, after, resp) ==
  [after EXCEPT !.ghost.responses =
     Append(@, [resp |-> resp,
                was_pending |-> before.toolbar.pending_delete_request,
                pending_after |-> after.toolbar.pending_delete_request,
                sent |-> SubSeq(after.chan.operation_rx,
                                Len(before.chan.operation_rx) + 1,
                                Len(after.chan.operation_rx))])]

RECURSIVE DrainResponses(_)
DrainResponses(w) ==
  IF w.chan.selected_paths_response_rx = <<>> THEN w
  ELSE LET resp == Head(w.chan.selected_paths_response_rx)
           w1 == [w EXCEPT !.chan.selected_paths_response_rx = Tail(@)]
       IN DrainResponses(LogResponse(w1, HandleResponse(w1, resp), resp))

\* variant: only the Back signal is set
UpdateButtonStates_BackOnly(w) ==
  Unlock([Lock(w) EXCEPT !.toolbar.can_go_back = can_go_back(w.navigation)])

UpdateButtonStates(w) ==
  Unlock([Lock(w) EXCEPT !.toolbar.can_go_back = can_go_back(w.navigation),
                         !.toolbar.can_go_forward = can_go_forward(w.navigation)])

RECURSIVE DrainSelectionChanges(_)
DrainSelectionChanges(w) ==
  IF w.chan.selection_change_rx = <<>> THEN w
  ELSE DrainSelectionChanges(
         [w EXCEPT !.chan.selection_change_rx = Tail(@),
                   !.toolbar.has_selection = (Head(w.chan.selection_change_rx) # <<>>)])

ToolbarWrapper_update(w, now) ==
  DrainSelectionChanges(
    UpdateButtonStates(
      DrainResponses(
        HandleProperties(
          HandleNewFolder(
            DrainNavigationActions(w), now)))))

\* ------------------------------------------------------------- filesystem
IsPrefix(p, q) == Len(p) <= Len(q) /\ SubSeq(q, 1, Len(p)) = p

\* Path::exists
exists(disk, p) == p \in disk

\* the entries of directory p
children(disk, p) == {q \in disk : Len(q) = Len(p) + 1 /\ IsPrefix(p, q)}

\* operations::delete_path: metadata fails on a missing path; a directory
\* goes with everything below it
delete_path(disk, path) ==
  IF path \in disk
    THEN [disk |-> {q \in disk : ~IsPrefix(path, q)}, ok |-> TRUE, err |-> ""]
    ELSE [disk |-> disk, ok |-> FALSE, err |-> "Failed to get metadata"]

\* operations::create_directory: fs::create_dir fails when the path exists or
\* its parent does not
create_directory(disk, path) ==
  IF path \notin disk /\ parent(path).some /\ parent(path).val \in disk
    THEN [disk |-> disk \cup {path}, ok |-> TRUE, err |-> ""]
    ELSE [disk |-> disk, ok |-> FALSE, err |-> "Failed to create directory"]

\* operations::rename_path: fs::rename moves the subtree of `from`; it fails
\* when `from` is missing, when the parent of `to` is missing, when `to` lies
\* inside `from`, and when `to` is a directory that is not empty
rename_path(disk, from, to) ==
  IF from = to /\ from \in disk
    THEN [disk |-> disk, ok |-> TRUE, err |-> ""]
  ELSE IF /\ from \in disk
          /\ parent(to).some /\ parent(to).val \in disk
          /\ ~IsPrefix(from, to)
          /\ children(disk, to) = {}
    THEN [disk |-> {q \in disk : ~IsPrefix(from, q)} \cup
                   {to \o SubSeq(q, Len(from) + 1, Len(q)) :
                      q \in {r \in disk : IsPrefix(from, r)}},
          ok |-> TRUE, err |-> ""]
  ELSE [disk |-> disk, ok |-> FALSE, err |-> "Failed to rename"]

\* ------------------------------------------------------------ status texts
\* A status text is a record, so that starts_with / contains can be computed:
\* kind names the format string, s / path / n fill it in.
Text(kind, str, path, n) == [kind |-> kind, s |-> str, path |-> path, n |-> n]
ReadyText == Text("Ready", "", <<>>, 0)
DeletedText(n) == Text("Deleted {} item(s)", "", <<>>, n)
ErrorText(e) == Text("Error: {}", e, <<>>, 0)
CreatedText(name) == Text("Created directory '{}'", name, <<>>, 0)
RenamedText == Text("Renamed successfully", "", <<>>, 0)
PropertiesText == Text("Properties functionality available via right-click", "", <<>>, 0)

\* ---------------------------------------------------------------- FileList
\* FileList::set_path: show `p` and enumerate its entries again
FileList_set_path(w, p) ==
  UnderLock([w EXCEPT !.file_list.current_path = p,
                      !.file_list.entries = children(w.fs, p),
                      !.ghost.set_paths = Append(@, p)],
            "set_path", "file_list")

\* FileList::update: the widget's own navigation (a double-click into a
\* directory), None when the user did nothing
FileList_update(w, internal_nav) ==
  IF internal_nav.some
    THEN [FileList_set_path(w, internal_nav.val) EXCEPT
            !.ghost.internal_nav = internal_nav]
    ELSE w

\* -------------------------------------------- FileListWrapper::update
\* variant: one sidebar message per tick
DrainSidebarNavigation_OnePerTick(w) ==
  IF w.chan.sidebar_navigation_rx = <<>> THEN w
  ELSE W_navigate_to([w EXCEPT !.chan.sidebar_navigation_rx = Tail(@)],
                     Head(w.chan.sidebar_navigation_rx))

RECURSIVE DrainSidebarNavigation(_)
DrainSidebarNavigation(w) ==
  IF w.chan.sidebar_navigation_rx = <<>> THEN w
  ELSE DrainSidebarNavigation(
         Unlock(W_navigate_to(Lock([w EXCEPT !.chan.sidebar_navigation_rx = Tail(@)]),
                              Head(w.chan.sidebar_navigation_rx))))

\* variant: the canonical path is not written into the FileList
SyncNavigationToFileList_NoWrite(w, nav_path) == w

\* write-down: the canonical path into the FileList
SyncNavigationToFileList(w, nav_path) ==
  IF nav_path # w.file_list.current_path THEN FileList_set_path(w, nav_path) ELSE w

\* variant: the walk makes one step only
recovery_walk_OneStep(disk, recovery_path) ==
  IF ~exists(disk, recovery_path) /\ recovery_path # Root /\ parent(recovery_path).some
    THEN parent(recovery_path).val
    ELSE recovery_path

\* the walk to the nearest existing ancestor
\* variant: the loop goes on while there is a parent, past existing paths
RECURSIVE recovery_loop_PastExisting(_, _, _)
recovery_loop_PastExisting(disk, recovery_path, steps) ==
  IF recovery_path # Root /\ parent(recovery_path).some
    THEN recovery_loop_PastExisting(disk, parent(recovery_path).val, steps + 1)
    ELSE [path |-> recovery_path, steps |-> steps]

\* the while loop of the walk; steps counts its assignments to recovery_path
RECURSIVE recovery_loop(_, _, _)
recovery_loop(disk, recovery_path, steps) ==
  IF ~exists(disk, recovery_path) /\ recovery_path # Root
    THEN IF parent(recovery_path).some
           THEN recovery_loop(disk, parent(recovery_path).val, steps + 1)
           ELSE [path |-> recovery_path, steps |-> steps]
    ELSE [path |-> recovery_path, steps |-> steps]

recovery_walk(disk, recovery_path) == recovery_loop(disk, recovery_path, 0).path

\* variant: the recovery moves the history and leaves the FileList where it is
RecoverVanishedPath_HistoryOnly(w) ==
  LET current_path == w.file_list.current_path
      recovery_path == recovery_walk(w.fs, current_path)
  IN IF ~exists(w.fs, current_path) /\ exists(w.fs, recovery_path) /\
        recovery_path # current_path
       THEN Unlock(W_navigate_to(Lock(w), recovery_path))
       ELSE w

RecoverVanishedPath(w) ==
  LET current_path == w.file_list.current_path
  IN IF ~exists(w.fs, current_path)
       THEN LET recovery_path == recovery_walk(w.fs, current_path)
            IN IF exists(w.fs, recovery_path) /\ recovery_path # current_path
                 THEN Unlock(FileList_set_path(W_navigate_to(Lock(w), recovery_path),
                                               recovery_path))
                 ELSE w
       ELSE w

\* variant: the write-up made on every tick, whether the paths differ or not
SyncFileListToNavigation_Ungated(w, nav_path) ==
  W_navigate_to(w, w.file_list.current_path)

\* variant: the FileList's path is never written into the history
SyncFileListToNavigation_NoWrite(w, nav_path) == w

\* write-up: the FileList's path into the history, compared with the
\* canonical path read before the FileList's update
SyncFileListToNavigation(w, nav_path) ==
  IF w.file_list.current_path # nav_path
    THEN Unlock(W_navigate_to(Lock(w), w.file_list.current_path))
    ELSE w

\* the delete loop: stops at the first failure.  r holds the disk, the
\* calls made so far and the outcome.
RECURSIVE delete_loop_file_list(_, _)
delete_loop_file_list(r, paths) ==
  IF paths = <<>> THEN r
  ELSE LET d == delete_path(r.disk, Head(paths))
           calls == Append(r.calls, [path |-> Head(paths), ok |-> d.ok])
       IN IF d.ok
            THEN delete_loop_file_list([r EXCEPT !.disk = d.disk, !.calls = calls],
                                       Tail(paths))
            ELSE [disk |-> d.disk, calls |-> calls,
                  all_success |-> FALSE, error_msg |-> d.err]

RefreshFileList(w) == FileList_set_path(w, w.file_list.current_path)

\* variant: the status reports success whatever the loop did
ExecuteFileListDelete_AlwaysDeleted(w, paths) ==
  LET r == delete_loop_file_list(
             [disk |-> w.fs, calls |-> <<>>, all_success |-> TRUE, error_msg |-> ""],
             paths)
      w1 == [w EXCEPT !.fs = r.disk,
                      !.ghost.delete_runs =
                         Append(@, [route |-> "file_list", paths |-> paths,
                                    origin |-> "", calls |-> r.calls])]
  IN RefreshFileList(Send(w1, "status_rx", DeletedText(Len(paths))))

\* FileListOperation::Delete(paths), window.rs 245-279
ExecuteFileListDelete(w, paths) ==
  LET r == delete_loop_file_list(
             [disk |-> w.fs, calls |-> <<>>, all_success |-> TRUE, error_msg |-> ""],
             paths)
      w1 == [w EXCEPT !.fs = r.disk,
                      !.ghost.delete_runs =
                         Append(@, [route |-> "file_list", paths |-> paths,
                                    origin |-> "", calls |-> r.calls])]
      w2 == Send(w1, "status_rx",
                 IF r.all_success THEN DeletedText(Len(paths))
                                  ELSE ErrorText(r.error_msg))
  IN RefreshFileList(w2)

RECURSIVE DrainFileListOperations(_)
DrainFileListOperations(w) ==
  IF w.chan.file_list_operation_rx = <<>> THEN w
  ELSE DrainFileListOperations(
         ExecuteFileListDelete(
           [w EXCEPT !.chan.file_list_operation_rx = Tail(@)],
           Head(w.chan.file_list_operation_rx).paths))

\* variants: CreateDirectory without its refresh, Rename refreshing after a
\* failure too, Properties refreshing the list
HandleCreateDirectory_NoRefresh(w, op) ==
  LET new_dir == Append(op.parent, op.name)
      c == create_directory(w.fs, new_dir)
  IN IF c.ok
       THEN Send([w EXCEPT !.fs = c.disk], "status_rx", CreatedText(op.name))
       ELSE Send(w, "status_rx", ErrorText(c.err))

HandleRename_RefreshAlways(w, op) ==
  LET c == rename_path(w.fs, op.from, op.to)
  IN IF c.ok
       THEN RefreshFileList(Send([w EXCEPT !.fs = c.disk], "status_rx", RenamedText))
       ELSE RefreshFileList(Send(w, "status_rx", ErrorText(c.err)))

HandleProperties_op_Refreshing(w, op) ==
  RefreshFileList(Send(w, "status_rx", PropertiesText))

HandleCreateDirectory(w, op) ==
  LET new_dir == Append(op.parent, op.name)
      c == create_directory(w.fs, new_dir)
  IN IF c.ok
       THEN RefreshFileList(
              Send([w EXCEPT !.fs = c.disk], "status_rx", CreatedText(op.name)))
       ELSE Send(w, "status_rx", ErrorText(c.err))

HandleRename(w, op) ==
  LET c == rename_path(w.fs, op.from, op.to)
  IN IF c.ok
       THEN RefreshFileList(Send([w EXCEPT !.fs = c.disk], "status_rx", RenamedText))
       ELSE Send(w, "status_rx", ErrorText(c.err))

HandleProperties_op(w, op) == Send(w, "status_rx", PropertiesText)

\* what the pipeline did for one operation: the disk, the file list and the
\* history before and after, the status messages sent and the set_path calls
LogOperation(before, after, op) ==
  [after EXCEPT !.ghost.ops =
     Append(@, [op |-> op,
                fs_before |-> before.fs, fs_after |-> after.fs,
                file_list_before |-> before.file_list,
                file_list_after |-> after.file_list,
                navigation_same |-> (before.navigation = after.navigation),
                popups_same |-> (before.popups = after.popups),
                status |-> SubSeq(after.chan.status_rx,
                                  Len(before.chan.status_rx) + 1,
                                  Len(after.chan.status_rx)),
                set_paths |-> SubSeq(after.ghost.set_paths,
                                     Len(before.ghost.set_paths) + 1,
                                     Len(after.ghost.set_paths))])]

\* r = [w, pending_deletes]: the operations of operation_rx in order, the
\* Delete requests collected for the confirmation dialogs
\* variant: the drain gives up at the first request that fails
RECURSIVE DrainOperations_StopAtFailure(_)
DrainOperations_StopAtFailure(r) ==
  IF r.w.chan.operation_rx = <<>> THEN r
  ELSE LET op == Head(r.w.chan.operation_rx)
           w1 == [r.w EXCEPT !.chan.operation_rx = Tail(@)]
           w2 == CASE op.op = "Delete" -> w1
                   [] op.op = "CreateDirectory" -> HandleCreateDirectory(w1, op)
                   [] op.op = "Rename" -> HandleRename(w1, op)
                   [] op.op = "Properties" -> HandleProperties_op(w1, op)
           r2 == [w |-> LogOperation(w1, w2, op),
                  pending_deletes |-> IF op.op = "Delete"
                                        THEN Append(r.pending_deletes, op)
                                        ELSE r.pending_deletes]
           sent == w2.chan.status_rx
       IN IF Len(sent) > Len(w1.chan.status_rx) /\ sent[Len(sent)].kind = "Error: {}"
            THEN r2
            ELSE DrainOperations_StopAtFailure(r2)

RECURSIVE DrainOperations(_)
DrainOperations(r) ==
  IF r.w.chan.operation_rx = <<>> THEN r
  ELSE LET op == Head(r.w.chan.operation_rx)
           w1 == [r.w EXCEPT !.chan.operation_rx = Tail(@)]
       IN DrainOperations(
            CASE op.op = "Delete" ->
                   [w |-> LogOperation(w1, w1, op),
                    pending_deletes |-> Append(r.pending_deletes, op)]
              [] op.op = "CreateDirectory" ->
                   [w |-> LogOperation(w1, HandleCreateDirectory(w1, op), op),
                    pending_deletes |-> r.pending_deletes]
              [] op.op = "Rename" ->
                   [w |-> LogOperation(w1, HandleRename(w1, op), op),
                    pending_deletes |-> r.pending_deletes]
              [] op.op = "Properties" ->
                   [w |-> LogOperation(w1, HandleProperties_op(w1, op), op),
                    pending_deletes |-> r.pending_deletes])

\* show_delete_confirmation_dialog: no popup for an empty path list
show_delete_confirmation_dialog(w, req) ==
  IF req.paths = <<>> THEN w
  ELSE [w EXCEPT !.popups = Append(@, [paths |-> req.paths, origin |-> req.origin])]

RECURSIVE ShowDialogs(_, _)
ShowDialogs(w, pending_deletes) ==
  IF pending_deletes = <<>> THEN w
  ELSE ShowDialogs(show_delete_confirmation_dialog(w, Head(pending_deletes)),
                   Tail(pending_deletes))

\* the loop going on after a failure
RECURSIVE delete_loop_confirmed_BestEffort(_, _, _, _)
delete_loop_confirmed_BestEffort(disk, paths, i, calls) ==
  IF i > Len(paths)
    THEN [disk |-> disk, calls |-> calls,
          all_success |-> \A k \in 1..Len(calls) : calls[k].ok,
          error_msg |-> IF \A k \in 1..Len(calls) : calls[k].ok
                          THEN "" ELSE "Failed to get metadata"]
  ELSE LET d == delete_path(disk, paths[i])
       IN delete_loop_confirmed_BestEffort(
            d.disk, paths, i + 1, Append(calls, [path |-> paths[i], ok |-> d.ok]))

RECURSIVE delete_loop_confirmed(_, _, _, _)
delete_loop_confirmed(disk, paths, i, calls) ==
  IF i > Len(paths)
    THEN [disk |-> disk, calls |-> calls, all_success |-> TRUE, error_msg |-> ""]
  ELSE LET d == delete_path(disk, paths[i])
           made == Append(calls, [path |-> paths[i], ok |-> d.ok])
       IN IF d.ok THEN delete_loop_confirmed(d.disk, paths, i + 1, made)
          ELSE [disk |-> d.disk, calls |-> made,
                all_success |-> FALSE, error_msg |-> d.err]

\* pending_delete_confirmation.take() and the delete it confirms,
\* window.rs 361-397
ExecuteConfirmedDelete(w) ==
  IF w.file_list.pending_delete_confirmation.some
    THEN LET confirmed == w.file_list.pending_delete_confirmation.val
             r == delete_loop_confirmed(w.fs, confirmed.paths, 1, <<>>)
             w1 == [w EXCEPT !.file_list.pending_delete_confirmation = None,
                             !.fs = r.disk,
                             !.ghost.delete_runs =
                                Append(@, [route |-> "confirmed",
                                           paths |-> confirmed.paths,
                                           origin |-> confirmed.origin,
                                           calls |-> r.calls])]
             w2 == Send(w1, "status_rx",
                        IF r.all_success THEN DeletedText(Len(confirmed.paths))
                                         ELSE ErrorText(r.error_msg))
         IN RefreshFileList(w2)
    ELSE w

FileListWrapper_update(w, internal_nav) ==
  LET w1 == DrainSidebarNavigation(w)
      nav_path == w1.navigation.current_path.value
      w2 == SyncNavigationToFileList(w1, nav_path)
      w3 == FileList_update(w2, internal_nav)
      w4 == RecoverVanishedPath(w3)
      w5 == SyncFileListToNavigation(w4, nav_path)
      w6 == DrainFileListOperations(w5)
      r7 == DrainOperations([w |-> w6, pending_deletes |-> <<>>])
      w8 == ShowDialogs(r7.w, r7.pending_deletes)
  IN ExecuteConfirmedDelete(w8)

\* ------------------------------------------- LocationBarWrapper::update
\* PathBuf::to_string_lossy: the components joined by "/" after the root
RECURSIVE join_components(_)
join_components(comps) ==
  IF comps = <<>> THEN ""
  ELSE IF Len(comps) = 1 THEN Head(comps)
  ELSE Head(comps) \o "/" \o join_components(Tail(comps))

to_string_lossy(p) ==
  IF p # <<>> /\ Head(p) = "/" THEN "/" \o join_components(Tail(p))
  ELSE join_components(p)

\* path_to_breadcrumb_items: one item per prefix of the path, its id the
\* prefix; the last item is not clickable
path_to_breadcrumb_items(path) ==
  [k \in 1..Len(path) |->
     [id |-> to_string_lossy(SubSeq(path, 1, k)),
      target |-> SubSeq(path, 1, k),
      clickable |-> (k # Len(path))]]

SameIds(a, b) ==
  Len(a) = Len(b) /\ \A k \in 1..Len(a) : a[k].id = b[k].id

\* variant: the text input is synced on every tick
LocationBarWrapper_update_AlwaysSync(w) ==
  LET nav_path == w.navigation.current_path.value
  IN [w EXCEPT !.location_bar.breadcrumb_items = path_to_breadcrumb_items(nav_path),
               !.location_bar.text_input_value = to_string_lossy(nav_path),
               !.location_bar.last_synced_nav_path = nav_path]

LocationBarWrapper_update(w) ==
  LET nav_path == w.navigation.current_path.value
      new_items == path_to_breadcrumb_items(nav_path)
      w1 == IF ~SameIds(w.location_bar.breadcrumb_items, new_items)
              THEN [w EXCEPT !.location_bar.breadcrumb_items = new_items]
              ELSE w
  IN IF nav_path # w1.location_bar.last_synced_nav_path
       THEN [w1 EXCEPT !.location_bar.text_input_value = to_string_lossy(nav_path),
                       !.location_bar.last_synced_nav_path = nav_path]
       ELSE w1

\* --------------------------------------------- StatusBarWrapper::update
\* Duration::from_secs(3) of the temporary status messages
StatusTimeoutSecs == 3

\* the format strings and names that contain a word
StringsContaining(word) ==
  CASE word = "Created" -> {"Created directory '{}'"}
    [] word = "Deleted" -> {"Deleted {} item(s)", "Deleted"}
    [] OTHER -> {}

contains(text, word) ==
  \/ text.kind \in StringsContaining(word)
  \/ text.s \in StringsContaining(word)
  \/ \E k \in 1..Len(text.path) : text.path[k] \in StringsContaining(word)

starts_with_Error(text) == text.kind = "Error: {}"

\* the path, with the selection count when something is selected
NavigationStatus(w) ==
  LET nav_path == w.navigation.current_path.value
      selection_count == Len(w.file_list.selected_paths)
  IN IF selection_count > 0
       THEN Text("{} - {} item(s) selected", "", nav_path, selection_count)
       ELSE Text("{}", "", nav_path, 0)

update_status_from_navigation(w) ==
  IF w.status_bar.status_message_timeout.some
    THEN IF w.status_bar.status_message_timeout.val > StatusTimeoutSecs
           THEN [w EXCEPT !.status_bar.status_message_timeout = None,
                          !.status_bar.status_text = NavigationStatus(w)]
           ELSE w
    ELSE LET status_msg == NavigationStatus(w)
             current_status == w.status_bar.status_text
             should_update == /\ current_status # status_msg
                              /\ ~starts_with_Error(current_status)
                              /\ ~contains(current_status, "Created")
                              /\ ~contains(current_status, "Deleted")
         IN IF should_update THEN [w EXCEPT !.status_bar.status_text = status_msg]
            ELSE w

\* variant: the first message of the queue stays on display
DrainStatus_FirstWins(w) ==
  IF w.chan.status_rx = <<>> THEN w
  ELSE [w EXCEPT !.chan.status_rx = <<>>,
                 !.status_bar.status_text = Head(w.chan.status_rx),
                 !.status_bar.status_message_timeout = Some(0)]

RECURSIVE DrainStatus(_)
DrainStatus(w) ==
  IF w.chan.status_rx = <<>> THEN w
  ELSE DrainStatus(
         [w EXCEPT !.chan.status_rx = Tail(@),
                   !.status_bar.status_text = Head(w.chan.status_rx),
                   !.status_bar.status_message_timeout = Some(0)])

\* framework_status_text: the status tip of the framework, "" when none
StatusBarWrapper_update(w, framework_status_text) ==
  LET w1 == DrainStatus(w)
      has_active_temporary_message ==
        /\ w1.status_bar.status_message_timeout.some
        /\ w1.status_bar.status_message_timeout.val <= StatusTimeoutSecs
  IN IF ~has_active_temporary_message
       THEN IF framework_status_text # ""
              THEN [w1 EXCEPT !.status_bar.status_text =
                                 Text("tip", framework_status_text, <<>>, 0)]
              ELSE update_status_from_navigation(w1)
       ELSE w1

\* ------------------------------------------------------------------ Init
\* the path lists the FileList can have selected
Selections == {<<>>, <<FileA>>, <<FileA, FileB>>}
\* the places of the sidebar
SidebarPlaces == {Home, Pics}
\* the status tips of the framework, "" when no button is hovered
FrameworkTexts == {"", "Go back"}
\* the seconds since the epoch a tick can read
Clock == {1}

EmptyChannels ==
  [sidebar_navigation_rx |-> <<>>, toolbar_navigation_rx |-> <<>>,
   operation_rx |-> <<>>, file_list_operation_rx |-> <<>>, status_rx |-> <<>>,
   selected_paths_request_rx |-> <<>>, selected_paths_response_rx |-> <<>>,
   selection_change_rx |-> <<>>]

\* FilemanApp::run and build_window with `initial_path`
\* --------------------------------------------------------- FilemanSidebar
FilemanSidebarConfig_default ==
  [show_places |-> TRUE, show_bookmarks |-> FALSE, show_devices |-> FALSE,
   width |-> 200, use_symbolic_icons |-> FALSE]

\* the items with a uri: the Places section has the home and user directories,
\* the Bookmarks section is never built, the Devices section has no items
build_sections(config) == IF config.show_places THEN SidebarPlaces ELSE {}

\* the channel made by new(), named after the field that holds its receiver
SidebarChannel == "sidebar_navigation_rx"

\* inner is the Sidebar: its items and the sender its callback captured
FilemanSidebar_new ==
  [inner |-> [items |-> build_sections(FilemanSidebarConfig_default),
              on_item_selected |-> SidebarChannel],
   config |-> FilemanSidebarConfig_default,
   navigation_tx |-> SidebarChannel,
   navigation_rx |-> Some(SidebarChannel),
   bookmarks_service |-> FALSE]

\* variant: the rebuilt callback sends on a channel of its own, whose receiver
\* nobody holds
rebuild_sidebar_FreshChannel(s) ==
  [s EXCEPT !.inner = [items |-> build_sections(s.config),
                       on_item_selected |-> "fresh"]]

rebuild_sidebar(s) ==
  [s EXCEPT !.inner = [items |-> build_sections(s.config),
                       on_item_selected |-> s.navigation_tx]]

with_places(s, enabled) ==
  rebuild_sidebar([s EXCEPT !.config.show_places = enabled])

with_bookmarks(s, enabled) ==
  rebuild_sidebar([s EXCEPT !.config.show_bookmarks = enabled,
                            !.bookmarks_service = @ \/ enabled])

with_devices(s, enabled) ==
  rebuild_sidebar([s EXCEPT !.config.show_devices = enabled])

with_width(s, width) == [s EXCEPT !.config.width = width]

with_symbolic_icons(s, symbolic) ==
  [s EXCEPT !.config.use_symbolic_icons = symbolic]

\* variant: the receiver is handed out without being taken
take_navigation_receiver_Kept(s) ==
  [sidebar |-> s, ret |-> s.navigation_rx]

\* Option::take
take_navigation_receiver(s) ==
  [sidebar |-> [s EXCEPT !.navigation_rx = None], ret |-> s.navigation_rx]

\* build_window: new().with_places(true).with_bookmarks(true).with_width(200.0)
\* and then take_navigation_receiver()
BuiltSidebar ==
  take_navigation_receiver(
    with_width(with_bookmarks(with_places(FilemanSidebar_new, TRUE), TRUE), 200))

\* the state once the widgets are constructed around the sidebar s, on which
\* take_navigation_receiver returned takes so far
InitAround(disk, initial_path, s, takes) ==
  /\ navigation = NavigationState_new(initial_path)
  /\ sidebar = s
  /\ chan = EmptyChannels
  /\ toolbar = [new_folder_requested |-> FALSE, properties_requested |-> FALSE,
                pending_properties_request |-> FALSE,
                pending_delete_request |-> FALSE,
                can_go_back |-> FALSE, can_go_forward |-> FALSE,
                has_selection |-> FALSE]
  /\ fs = disk
  /\ file_list = [current_path |-> initial_path,
                  entries |-> children(disk, initial_path),
                  selected_paths |-> <<>>,
                  pending_delete_confirmation |-> None]
  /\ popups = <<>>
  /\ location_bar = [breadcrumb_items |-> path_to_breadcrumb_items(initial_path),
                     text_input_value |-> to_string_lossy(initial_path),
                     last_synced_nav_path |-> initial_path]
  /\ status_bar = [status_text |-> ReadyText, status_message_timeout |-> None]
  /\ frame = "toolbar"
  /\ ghost = [step |-> "Init", nav_calls |-> <<>>, set_paths |-> <<>>,
              delete_runs |-> <<>>, responses |-> <<>>,
              overwritten |-> None, ops |-> <<>>,
              internal_nav |-> None, quiet |-> NotQuiet,
              nav_locked |-> FALSE, under_lock |-> <<>>,
              takes |-> takes, pressed |-> <<>>, typed |-> None,
              back_from |-> None]

InitOn(disk, initial_path) ==
  InitAround(disk, initial_path, BuiltSidebar.sidebar, <<BuiltSidebar.ret>>)

InitWith(initial_path) == InitOn(Dirs \cup Files, initial_path)

Init == InitWith(Home)

\* the paths the program may be started on (main.rs takes the first argument
\* as it is): absolute, relative and empty
RelA == <<"a">>
RelAB == <<"a", "b">>
WalkPaths == {Root, Home, Docs, DocsA, <<>>, RelA, RelAB}
\* the disks: the root exists, a path exists only if its parent does, the
\* empty path does not exist
WalkDisks ==
  {d \in SUBSET (WalkPaths \ {<<>>}) :
     /\ Root \in d
     /\ \A q \in d : Len(q) > 1 => SubSeq(q, 1, Len(q) - 1) \in d}

InitWalk == \E disk \in WalkDisks, initial_path \in WalkPaths : InitOn(disk, initial_path)

\* a step of the program: the handler applied to the state, within the bounds
Step(w) == Bounded(w) /\ SetWorld(w)

\* ------------------------------------------------------ toolbar buttons
\* the on_pressed closure of the Delete button, toolbar.rs 136-161
delete_btn_on_pressed(w) ==
  IF ~w.toolbar.pending_delete_request
    THEN Send([w EXCEPT !.toolbar.pending_delete_request = TRUE],
              "selected_paths_request_rx", [origin |-> "delete"])
    ELSE w

\* ------------------------------------------------------------ producers
\* a NavigationAction sent by a holder of ToolbarWrapper::navigation_tx()
\* (the breadcrumbs of the location bar send NavigateTo this way)
MenuNavigation ==
  \E a \in NavigationActions :
    Step(Send(BeginStep(World, "menu"), "toolbar_navigation_rx", a))

\* the user changes the FileList's selection.  FileListWrapper::new passes
\* None as the FileList's selection_change_tx, so nothing is sent on the
\* toolbar's selection_change_rx.
\* The FileList's own steps are taken while the frame is at the FileList:
\* their order against the ticks of the toolbar, the one other party of the
\* selection channels, is the same at every point between two of its ticks.
SelectionChanged ==
  \E sel \in Selections :
    /\ frame = "file_list"
    /\ sel # file_list.selected_paths
    /\ Step([BeginStep(World, "selection") EXCEPT !.file_list.selected_paths = sel])

\* the answer to one selection request: the selection at that moment
SelectionResponder ==
  /\ frame = "file_list"
  /\ chan.selected_paths_request_rx # <<>>
  /\ LET w == BeginStep(World, "selection_response")
         req == Head(chan.selected_paths_request_rx)
     IN Step(Send([w EXCEPT !.chan.selected_paths_request_rx = Tail(@)],
                  "selected_paths_response_rx",
                  [paths |-> file_list.selected_paths, origin |-> req.origin]))

\* the requests sent by a holder of ToolbarWrapper::operation_tx()
ExternalOperations ==
  {CreateDirectory(Nowhere, "new"),
   Rename(FileA, FileB), Rename(Pics, Photos), Rename(Pics, Docs),
   Properties(<<FileA>>)}

\* only the order against the toolbar tick (the other sender) and the
\* FileListWrapper tick (the receiver) is observable: the request arrives
\* before or after the toolbar tick of a frame
ExternalOperation ==
  /\ frame \in {"toolbar", "location_bar"}
  /\ \E op \in ExternalOperations :
       Step(Send(BeginStep(World, "operation_tx"), "operation_rx", op))

\* a Delete request sent by a holder of ToolbarWrapper::operation_tx()
ExternalDelete ==
  /\ frame \in {"toolbar", "location_bar"}
  /\ Step(Send(BeginStep(World, "operation_tx"), "operation_rx",
               Delete(<<FileA>>, "external")))

\* the FileList widget asks for a delete on its own operation channel
FileListRequestsDelete ==
  /\ frame = "file_list"
  /\ \E paths \in Selections :
       Step(Send(BeginStep(World, "file_list_delete"), "file_list_operation_rx",
                 [op |-> "Delete", paths |-> paths]))

\* the popup manager closes popup k
close_popup(w, k) ==
  [w EXCEPT !.popups = SubSeq(@, 1, k - 1) \o SubSeq(@, k + 1, Len(@))]

\* the Cancel button storing the dialog's paths as the Delete button does
cancel_btn_on_pressed_Storing(w, k) ==
  [w EXCEPT !.file_list.pending_delete_confirmation = Some(w.popups[k])]

\* the on_pressed of the dialog's Cancel button: MaybeSignal::value(DRAW)
cancel_btn_on_pressed(w, k) == w

\* the on_pressed of the dialog's Delete button: *pending = Some(paths).
\* overwritten observes the value the assignment replaces.
dialog_delete_btn_on_pressed(w, k) ==
  [w EXCEPT !.file_list.pending_delete_confirmation = Some(w.popups[k]),
            !.ghost.overwritten = w.file_list.pending_delete_confirmation]

\* the Delete button of a confirmation popup; the popup manager may or may
\* not close the popup on the press.  The presses on a popup come between two
\* frames: only the FileListWrapper tick opens popups and reads what the
\* buttons store.
ConfirmPressed ==
  /\ frame = "toolbar"
  /\ \E k \in 1..Len(popups), closes \in BOOLEAN :
       LET w == dialog_delete_btn_on_pressed(BeginStep(World, "confirm"), k)
       IN Step(IF closes THEN close_popup(w, k) ELSE w)

\* the Cancel button, a click outside or ESC: the popup closes
CancelPressed ==
  /\ frame = "toolbar"
  /\ \E k \in 1..Len(popups) :
       Step(close_popup(cancel_btn_on_pressed(BeginStep(World, "cancel"), k), k))

\* a directory is removed by another program
FsRemoved ==
  \E d \in {Docs, Pics} :
    /\ d \in fs
    /\ Step([BeginStep(World, "fs_removed") EXCEPT
               !.fs = {q \in fs : ~IsPrefix(d, q)}])

\* a second passes
TimePasses ==
  /\ status_bar.status_message_timeout.some
  /\ status_bar.status_message_timeout.val <= StatusTimeoutSecs
  /\ Step([BeginStep(World, "clock") EXCEPT
             !.status_bar.status_message_timeout.val = @ + 1])

\* a second passes between two frames
TimePassesBetweenFrames == frame = "toolbar" /\ TimePasses

\* ------------------------------------------------------------- the ticks

\* One frame of the UI loop updates the widgets of build_window's tree in
\* order: toolbar, location bar, sidebar, file list, status bar.  A widget's
\* update ends with the update of its inner widgets, which runs the callback
\* of the button or item the user pressed, if any.
ToolbarButtons == {"back_btn", "forward_btn", "up_btn", "home_btn"}

\* the callback of the pressed button
on_pressed(w, pressed) ==
  CASE pressed = "back_btn" -> Unlock(W_go_back(Lock(w)))
    [] pressed = "forward_btn" -> Unlock(W_go_forward(Lock(w)))
    [] pressed = "up_btn" -> Unlock(W_up(Lock(w)))
    [] pressed = "home_btn" -> Unlock(W_navigate_to(Lock(w), EnvHome))
    [] pressed = "new_folder_btn" -> [w EXCEPT !.toolbar.new_folder_requested = TRUE]
    [] pressed = "properties_btn" -> [w EXCEPT !.toolbar.properties_requested = TRUE]
    [] pressed = "delete_btn" -> delete_btn_on_pressed(w)
    [] OTHER -> w

\* pressed, in the observation log, lists the buttons whose callbacks ran
toolbar_inner_update(w, pressed) ==
  IF pressed = "none" THEN w
  ELSE [on_pressed(w, pressed) EXCEPT !.ghost.pressed = Append(@, pressed)]

UpdateToolbarWith(buttons) ==
  /\ frame = "toolbar"
  /\ \E now \in Clock, pressed \in buttons \cup {"none"} :
       Step([toolbar_inner_update(
               ToolbarWrapper_update(BeginStep(World, "ToolbarWrapper"), now),
               pressed)
               EXCEPT !.frame = "location_bar"])

\* a tick of the toolbar alone, a navigation button pressed or not
ToolbarTick ==
  \E now \in Clock, pressed \in ToolbarButtons \cup {"none"} :
    Step(toolbar_inner_update(
           ToolbarWrapper_update(BeginStep(World, "ToolbarWrapper"), now),
           pressed))

\* no button pressed
UpdateToolbar == UpdateToolbarWith({})
\* a navigation button may be pressed
UpdateToolbarPressing == UpdateToolbarWith(ToolbarButtons)
\* Delete or Properties may be pressed
UpdateToolbarSelecting == UpdateToolbarWith({"delete_btn", "properties_btn"})
\* New Folder may be pressed
UpdateToolbarCreating == UpdateToolbarWith({"new_folder_btn"})
\* Delete may be pressed
UpdateToolbarDeleting == UpdateToolbarWith({"delete_btn"})

\* the on_click of the breadcrumbs: a clickable item whose path exists
location_bar_inner_update(w, k) ==
  IF k = 0 THEN w
  ELSE LET item == w.location_bar.breadcrumb_items[k]
       IN IF item.clickable /\ exists(w.fs, item.target)
            THEN Send(w, "toolbar_navigation_rx", NavigateTo(item.target))
            ELSE w

UpdateLocationBarWith(may_click) ==
  /\ frame = "location_bar"
  /\ LET w == LocationBarWrapper_update(BeginStep(World, "LocationBarWrapper"))
     IN \E k \in 0..(IF may_click THEN Len(w.location_bar.breadcrumb_items) ELSE 0) :
          Step([location_bar_inner_update(w, k) EXCEPT !.frame = "sidebar"])

UpdateLocationBar == UpdateLocationBarWith(FALSE)

\* what the user can have typed into the text input
UserTexts == {"/tmp", "/home"}

\* the TextInput of the inner container: keyboard input goes to the signal it
\* is bound to; typed, in the observation log, is the text the user left
text_input_update(w, typed) ==
  IF typed.some
    THEN [w EXCEPT !.location_bar.text_input_value = typed.val,
                   !.ghost.typed = typed]
    ELSE w

\* a tick of the location bar while the user may edit the text
UpdateLocationBarTyping ==
  /\ frame = "location_bar"
  /\ \E typed \in {None} \cup {Some(t) : t \in UserTexts} :
       Step([text_input_update(
               LocationBarWrapper_update(BeginStep(World, "LocationBarWrapper")),
               typed)
               EXCEPT !.frame = "sidebar"])
UpdateLocationBarClicking == UpdateLocationBarWith(TRUE)

\* FilemanSidebar: the on_item_selected callback sends the item's path
\* (a send on a channel whose receiver is gone fails and is ignored)
sidebar_update(w, selected) ==
  IF selected.some /\ w.sidebar.inner.on_item_selected \in DOMAIN w.chan
    THEN Send(w, w.sidebar.inner.on_item_selected, selected.val)
    ELSE w

UpdateSidebarWith(places) ==
  /\ frame = "sidebar"
  /\ \E selected \in {None} \cup {Some(p) : p \in places \cap sidebar.inner.items} :
       Step([sidebar_update(BeginStep(World, "FilemanSidebar"), selected)
               EXCEPT !.frame = "file_list"])

UpdateSidebar == UpdateSidebarWith(SidebarPlaces)
UpdateSidebarIdle == UpdateSidebarWith({})

UpdateFileListWith(may_navigate) ==
  /\ frame = "file_list"
  /\ \E internal_nav \in {None} \cup {Some(d) : d \in IF may_navigate
                                                         THEN file_list.entries \cap Dirs
                                                         ELSE {}} :
       Step([FileListWrapper_update(BeginStep(World, "FileListWrapper"), internal_nav)
               EXCEPT !.frame = "status_bar"])

UpdateFileList == UpdateFileListWith(TRUE)
\* the same while the user does not navigate inside the FileList
UpdateFileListIdle == UpdateFileListWith(FALSE)

UpdateStatusBarWith(texts) ==
  /\ frame = "status_bar"
  /\ \E framework_status_text \in texts :
       Step([StatusBarWrapper_update(BeginStep(World, "StatusBarWrapper"),
                                     framework_status_text)
               EXCEPT !.frame = "toolbar"])

UpdateStatusBar == UpdateStatusBarWith(FrameworkTexts)
\* the same while no button is hovered
UpdateStatusBarNoTip == UpdateStatusBarWith({""})

\* ------------------------------------------------------------- quiet ticks
\* no message that a tick will turn into navigation or a file operation
InFlightEmpty(w) ==
  /\ w.chan.toolbar_navigation_rx = <<>>
  /\ w.chan.sidebar_navigation_rx = <<>>
  /\ w.chan.operation_rx = <<>>
  /\ w.chan.file_list_operation_rx = <<>>
  /\ w.chan.selected_paths_response_rx = <<>>
  /\ ~w.toolbar.new_folder_requested
  /\ ~w.toolbar.properties_requested
  /\ ~w.file_list.pending_delete_confirmation.some

\* a tick made after the input stopped
Quietly(w) ==
  [w EXCEPT !.ghost.quiet.ticks = IF @ = 0 THEN 1 ELSE @]

\* a FileListWrapper tick made after the input stopped, from state `before`
QuietReconciled(before, w) ==
  LET q == before.ghost.quiet
      settles == InFlightEmpty(before)
      work == w.ghost.set_paths # <<>> \/ w.ghost.nav_calls # <<>>
  IN [w EXCEPT !.ghost.quiet =
        [ticks |-> IF q.ticks = 0 THEN 2
                   ELSE IF q.ticks <= MaxQuiet THEN q.ticks + 1 ELSE q.ticks,
         settled |-> IF settles /\ q.settled < MaxQuiet THEN q.settled + 1
                     ELSE q.settled,
         worked |-> IF settles /\ q.settled = 0 THEN work ELSE q.worked]]

QuietToolbar ==
  /\ frame = "toolbar"
  /\ \E now \in Clock :
       Step(Quietly([ToolbarWrapper_update(BeginStep(World, "ToolbarWrapper"), now)
                       EXCEPT !.frame = "location_bar"]))

QuietLocationBar ==
  /\ frame = "location_bar"
  /\ Step(Quietly([LocationBarWrapper_update(BeginStep(World, "LocationBarWrapper"))
                     EXCEPT !.frame = "sidebar"]))

QuietSidebar ==
  /\ frame = "sidebar"
  /\ Step(Quietly([BeginStep(World, "FilemanSidebar") EXCEPT !.frame = "file_list"]))

QuietFileList ==
  /\ frame = "file_list"
  /\ Step(QuietReconciled(World,
            [FileListWrapper_update(BeginStep(World, "FileListWrapper"), None)
               EXCEPT !.frame = "status_bar"]))

QuietStatusBar ==
  /\ frame = "status_bar"
  /\ Step(Quietly([StatusBarWrapper_update(BeginStep(World, "StatusBarWrapper"), "")
                     EXCEPT !.frame = "toolbar"]))

\* ------------------------------------------------------- specifications
\* the navigation history under every sequence of calls: the toolbar tick
\* applies the queued NavigationActions in order, then the callback of the
\* pressed button calls the history directly
NextNav ==
  \/ MenuNavigation
  \/ ToolbarTick

SpecNav == Init /\ [][NextNav]_vars

\* navigation and reconciliation: the frames of the UI loop with the user
\* pressing navigation buttons, breadcrumbs and sidebar items and navigating
\* inside the FileList, while directories vanish
Next ==
  \/ UpdateToolbarPressing
  \/ UpdateLocationBarClicking
  \/ UpdateSidebar
  \/ UpdateFileList
  \/ UpdateStatusBarNoTip
  \/ FsRemoved

Spec == Init /\ [][Next]_vars

\* the selection handshake of the toolbar: delete and properties presses,
\* the selection responses and the requests the toolbar makes of them; the
\* popups are cancelled
NextGate ==
  \/ UpdateToolbarSelecting
  \/ SelectionChanged
  \/ SelectionResponder
  \/ CancelPressed
  \/ UpdateLocationBar
  \/ UpdateSidebarIdle
  \/ UpdateFileListIdle
  \/ UpdateStatusBarNoTip

SpecGate == Init /\ [][NextGate]_vars

\* the two routes of a delete: from the toolbar through the confirmation
\* popup, and from the FileList's own operation channel
NextDelete ==
  \/ UpdateToolbarDeleting
  \/ SelectionChanged
  \/ SelectionResponder
  \/ FileListRequestsDelete
  \/ ConfirmPressed
  \/ CancelPressed
  \/ UpdateLocationBar
  \/ UpdateSidebarIdle
  \/ UpdateFileListIdle
  \/ UpdateStatusBarNoTip

SpecDelete == Init /\ [][NextDelete]_vars

\* the operation pipeline: New Folder presses and the requests of other
\* senders, drained by the FileListWrapper tick
NextOps ==
  \/ UpdateToolbarCreating
  \/ ExternalOperation
  \/ UpdateLocationBar
  \/ UpdateSidebarIdle
  \/ UpdateFileListIdle
  \/ UpdateStatusBarNoTip

SpecOps == Init /\ [][NextOps]_vars

\* the UI loop of Spec until the user and the disk go quiet; from then on
\* only the ticks run
NextQuiet ==
  \/ ghost.quiet.ticks = 0 /\ Next
  \/ QuietToolbar
  \/ QuietLocationBar
  \/ QuietSidebar
  \/ QuietFileList
  \/ QuietStatusBar

SpecQuiet == Init /\ [][NextQuiet]_vars

\* two sidebar items selected within one frame: the callback runs once for
\* each, the FileListWrapper tick finds both paths queued
UpdateSidebarTwice ==
  /\ frame = "sidebar"
  /\ \E a \in SidebarPlaces, b \in SidebarPlaces :
       Step([sidebar_update(sidebar_update(BeginStep(World, "FilemanSidebar"),
                                           Some(a)), Some(b))
               EXCEPT !.frame = "file_list"])

\* the consumer of operation_rx alone: requests of every kind from other
\* senders, the popups of the Delete requests cancelled
NextPipeline ==
  \/ ExternalOperation
  \/ ExternalDelete
  \/ CancelPressed
  \/ UpdateToolbar
  \/ UpdateLocationBar
  \/ UpdateSidebarIdle
  \/ UpdateFileListIdle
  \/ UpdateStatusBarNoTip

SpecPipeline == Init /\ [][NextPipeline]_vars

\* the location bar: the user edits the text while Up and the sidebar change
\* the navigation path
NextLocation ==
  \/ UpdateToolbarWith({"up_btn"})
  \/ UpdateLocationBarTyping
  \/ UpdateSidebar
  \/ UpdateFileListIdle
  \/ UpdateStatusBarNoTip

SpecLocation == Init /\ [][NextLocation]_vars

\* the two delete executors of the FileListWrapper tick: Delete requests on
\* operation_rx, confirmed or cancelled in their popups, and Delete requests
\* of the FileList on its own channel
NextRoutes ==
  \/ ExternalDelete
  \/ FileListRequestsDelete
  \/ ConfirmPressed
  \/ CancelPressed
  \/ UpdateToolbar
  \/ UpdateLocationBar
  \/ UpdateSidebarIdle
  \/ UpdateFileListIdle
  \/ UpdateStatusBarNoTip

SpecRoutes == Init /\ [][NextRoutes]_vars

\* the status bar: the statuses of the operation pipeline, the status tips
\* of the framework, the navigation path changed by Up, and time
NextStatus ==
  \/ ExternalOperation
  \/ TimePassesBetweenFrames
  \/ UpdateToolbarWith({"up_btn"})
  \/ UpdateLocationBar
  \/ UpdateSidebarIdle
  \/ UpdateFileListIdle
  \/ UpdateStatusBar

SpecStatus == Init /\ [][NextStatus]_vars

\* the status bar over a disk with a directory named Deleted, the program
\* started on it or on its parent: the navigation path changed by Up and by
\* the sidebar, the selection and the status tips
InitShown ==
  \E initial_path \in {Home, DeletedDir} :
    InitOn(Dirs \cup Files \cup {DeletedDir}, initial_path)

NextShown ==
  \/ SelectionChanged
  \/ UpdateToolbarWith({"up_btn"})
  \/ UpdateLocationBar
  \/ UpdateSidebar
  \/ UpdateFileListIdle
  \/ UpdateStatusBar

SpecShown == InitShown /\ [][NextShown]_vars

\* ------------------------------------------- a FilemanSidebar being built
\* a sidebar fresh from new(), before any builder call
InitSidebar == InitAround(Dirs \cup Files, Home, FilemanSidebar_new, <<>>)

SidebarWidths == {200, 240}

CallBuilder(name, s) ==
  Step([BeginStep(World, name) EXCEPT !.sidebar = s])

WithPlaces == \E enabled \in BOOLEAN :
  CallBuilder("with_places", with_places(sidebar, enabled))

WithBookmarks == \E enabled \in BOOLEAN :
  CallBuilder("with_bookmarks", with_bookmarks(sidebar, enabled))

WithDevices == \E enabled \in BOOLEAN :
  CallBuilder("with_devices", with_devices(sidebar, enabled))

WithWidth == \E width \in SidebarWidths :
  CallBuilder("with_width", with_width(sidebar, width))

WithSymbolicIcons == \E symbolic \in BOOLEAN :
  CallBuilder("with_symbolic_icons", with_symbolic_icons(sidebar, symbolic))

TakeNavigationReceiver ==
  /\ Len(ghost.takes) < MaxTakes
  /\ LET w == BeginStep(World, "take_navigation_receiver")
         t == take_navigation_receiver(w.sidebar)
     IN Step([w EXCEPT !.sidebar = t.sidebar,
                       !.ghost.takes = Append(@, t.ret)])

\* an item of the inner Sidebar is selected: its callback runs
SidebarItemSelected ==
  \E p \in sidebar.inner.items :
    Step(sidebar_update(BeginStep(World, "on_item_selected"), Some(p)))

NextSidebar ==
  \/ WithPlaces
  \/ WithBookmarks
  \/ WithDevices
  \/ WithWidth
  \/ WithSymbolicIcons
  \/ TakeNavigationReceiver
  \/ SidebarItemSelected

SpecSidebar == InitSidebar /\ [][NextSidebar]_vars

\* NavigationAction::Up sent between two frames
MenuUp ==
  /\ frame = "toolbar"
  /\ Step(Send(BeginStep(World, "menu"), "toolbar_navigation_rx", Up))

\* Up, queued or pressed, from any path the program may be started on
NextUp ==
  \/ MenuUp
  \/ UpdateToolbarWith({"up_btn"})
  \/ UpdateLocationBar
  \/ UpdateSidebarIdle
  \/ UpdateFileListIdle
  \/ UpdateStatusBarNoTip

SpecUp == InitWalk /\ [][NextUp]_vars

\* a NavigationAction sent between two frames
MenuNavigationBetweenFrames == frame = "toolbar" /\ MenuNavigation

\* the two navigation queues and their consumers: actions sent on the
\* toolbar's channel, sidebar selections, and the ticks that drain them
NextQueues ==
  \/ MenuNavigationBetweenFrames
  \/ UpdateToolbar
  \/ UpdateLocationBar
  \/ UpdateSidebar
  \/ UpdateSidebarTwice
  \/ UpdateFileListIdle
  \/ UpdateStatusBarNoTip

SpecQueues == Init /\ [][NextQueues]_vars

\* New Folder pressed twice within one frame: the callback runs once for each
UpdateToolbarCreatingTwice ==
  /\ frame = "toolbar"
  /\ \E now \in Clock :
       Step([toolbar_inner_update(
               toolbar_inner_update(
                 ToolbarWrapper_update(BeginStep(World, "ToolbarWrapper"), now),
                 "new_folder_btn"),
               "new_folder_btn")
               EXCEPT !.frame = "location_bar"])

\* New Folder pressed, Up queued, and the ticks that handle the requests
NextFolder ==
  \/ MenuUp
  \/ UpdateToolbarCreating
  \/ UpdateToolbarCreatingTwice
  \/ UpdateLocationBar
  \/ UpdateSidebarIdle
  \/ UpdateFileListIdle
  \/ UpdateStatusBarNoTip

SpecFolder == Init /\ [][NextFolder]_vars

\* the idle UI loop started on any path of any disk
NextWalk ==
  \/ UpdateToolbar
  \/ UpdateLocationBar
  \/ UpdateSidebarIdle
  \/ UpdateFileListIdle
  \/ UpdateStatusBarNoTip

SpecWalk == InitWalk /\ [][NextWalk]_vars

\* ================================================================ claims
\* the calls of NavigationState made in the last step, in order
Calls == ghost.nav_calls
CallIndexes == 1..Len(Calls)
\* the entry a history record points at
EntryAt(n) == n.path_history[n.history_position + 1]
\* the same history, position and signal value
SameHistory(a, b) ==
  /\ a.path_history = b.path_history
  /\ a.history_position = b.history_position
  /\ a.current_path.value = b.current_path.value

\* C1: after any sequence of new, navigate_to, go_back and go_forward the
\* history is non-empty and 0 <= history_position < len(path_history).
C1_PositionInRange ==
  /\ Len(navigation.path_history) >= 1
  /\ navigation.history_position >= 0
  /\ navigation.history_position < Len(navigation.path_history)

\* a history of three entries, the position in its middle after a go_back
C1_Witness ==
  /\ Len(navigation.path_history) = 3
  /\ navigation.history_position = 1
  /\ Calls # <<>>
  /\ Calls[Len(Calls)].op = "go_back"

\* C2: no two adjacent entries of path_history are equal.
C2_NoAdjacentEqual ==
  \A i \in 1..(Len(navigation.path_history) - 1) :
    navigation.path_history[i] # navigation.path_history[i + 1]

\* a navigate_to from the middle of the history to the entry that was next:
\* the truncated history ends with the same path it had there
C2_Witness ==
  \E i \in CallIndexes :
    /\ Calls[i].op = "navigate_to"
    /\ Calls[i].pre.history_position < Len(Calls[i].pre.path_history) - 1
    /\ Calls[i].arg.val = Calls[i].pre.path_history[Calls[i].pre.history_position + 2]
    /\ Calls[i].post.path_history = Calls[i].pre.path_history

\* C3: navigate_to(path) with path equal to the current entry changes neither
\* path_history nor history_position and does not write the signal.
C3_NavigateToCurrentIsNoOp ==
  \A i \in CallIndexes :
    (Calls[i].op = "navigate_to" /\ Calls[i].arg.val = EntryAt(Calls[i].pre))
      => /\ Calls[i].post.path_history = Calls[i].pre.path_history
         /\ Calls[i].post.history_position = Calls[i].pre.history_position
         /\ Calls[i].post.current_path = Calls[i].pre.current_path

\* navigate_to(current entry) called with a history of two or more entries
C3_Witness ==
  \E i \in CallIndexes :
    /\ Calls[i].op = "navigate_to"
    /\ Calls[i].arg.val = EntryAt(Calls[i].pre)
    /\ Len(Calls[i].pre.path_history) >= 2

\* C4: navigate_to(path) with path different from the current entry removes
\* the entries after history_position, appends path, points history_position
\* at the new last entry and sets the signal to path once; no forward
\* history is left.
C4_NavigateToTruncatesAndAppends ==
  \A i \in CallIndexes :
    (Calls[i].op = "navigate_to" /\ Calls[i].arg.val # EntryAt(Calls[i].pre))
      => LET pre == Calls[i].pre
             post == Calls[i].post
         IN /\ post.path_history =
                 Append(SubSeq(pre.path_history, 1, pre.history_position + 1),
                        Calls[i].arg.val)
            /\ post.history_position = Len(post.path_history) - 1
            /\ post.current_path.value = Calls[i].arg.val
            /\ post.current_path.sets = pre.current_path.sets + 1
            /\ ~(post.history_position < Len(post.path_history) - 1)

\* the scenario: home, docs, docs/a, go_back to docs, navigate_to(pics)
C4_Witness ==
  \E i \in CallIndexes :
    /\ Calls[i].op = "navigate_to"
    /\ Calls[i].arg.val = Pics
    /\ Calls[i].pre.path_history = <<Home, Docs, DocsA>>
    /\ Calls[i].pre.history_position = 1
    /\ Calls[i].post.path_history = <<Home, Docs, Pics>>

\* C5: go_back (go_forward) moves history_position by exactly -1 (+1) and
\* returns the path at the new position iff position > 0 (position < len-1);
\* otherwise it returns None and changes nothing.  Neither changes
\* path_history.
C5_BackForwardWithinBounds ==
  \A i \in CallIndexes :
    LET pre == Calls[i].pre
        post == Calls[i].post
        delta == IF Calls[i].op = "go_back" THEN -1 ELSE 1
        available == IF Calls[i].op = "go_back"
                       THEN pre.history_position > 0
                       ELSE pre.history_position < Len(pre.path_history) - 1
    IN Calls[i].op \in {"go_back", "go_forward"}
         => /\ post.path_history = pre.path_history
            /\ IF available
                 THEN /\ post.history_position = pre.history_position + delta
                      /\ Calls[i].ret = Some(pre.path_history[pre.history_position + delta + 1])
                      /\ post.current_path.value = Calls[i].ret.val
                 ELSE /\ Calls[i].ret = None
                      /\ post = pre

\* a go_back that moves, then a go_back at the exhausted bound, in one tick
C5_Witness ==
  /\ Len(Calls) = 2
  /\ Calls[1].op = "go_back" /\ Calls[1].ret.some
  /\ Calls[2].op = "go_back" /\ ~Calls[2].ret.some
  /\ Len(Calls[2].pre.path_history) >= 2

\* C6 as stated: from every reachable state, go_back() followed immediately
\* by go_forward() restores the path, position and history held before.
C6_BackForwardRestoresAlways ==
  \A i \in 1..(Len(Calls) - 1) :
    (Calls[i].op = "go_back" /\ Calls[i + 1].op = "go_forward")
      => SameHistory(Calls[i + 1].post, Calls[i].pre)

\* C6, amended: a go_back() that returned a path, followed immediately by
\* go_forward(), restores the path, position and history held before.
C6_BackForwardRestores ==
  \A i \in 1..(Len(Calls) - 1) :
    (Calls[i].op = "go_back" /\ Calls[i].ret.some /\ Calls[i + 1].op = "go_forward")
      => SameHistory(Calls[i + 1].post, Calls[i].pre)

\* a go_back that moved, followed at once by go_forward
C6_Witness ==
  /\ Len(Calls) = 2
  /\ Calls[1].op = "go_back" /\ Calls[1].ret.some
  /\ Calls[2].op = "go_forward" /\ Calls[2].ret.some

\* the signal writes made inside the logged calls
RECURSIVE WritesIn(_)
WritesIn(calls) ==
  IF calls = <<>> THEN 0
  ELSE (Head(calls).post.current_path.sets - Head(calls).pre.current_path.sets)
       + WritesIn(Tail(calls))

\* C7: the canonical signal equals path_history[history_position], and every
\* write of it in a step of any widget is made inside navigate_to, go_back
\* or go_forward.
C7_SignalIsCurrentEntry ==
  /\ navigation.history_position < Len(navigation.path_history)
  /\ navigation.current_path.value = EntryAt(navigation)
  /\ navigation.current_path.sets = WritesIn(Calls)
  /\ \A i \in CallIndexes : Calls[i].op \in {"navigate_to", "go_back", "go_forward"}

\* a FileListWrapper tick that wrote the signal: the FileList's own
\* navigation written up into the history
C7_Witness ==
  /\ ghost.step = "FileListWrapper"
  /\ navigation.current_path.sets >= 1
  /\ navigation.current_path.value = file_list.current_path
  /\ navigation.history_position >= 1

\* the runs of the delete loops made in the last step
DeleteRuns == ghost.delete_runs
\* what ToolbarWrapper::update made of each selection response of its tick
Responses == ghost.responses
DeletesIn(sent) == {k \in 1..Len(sent) : sent[k].op = "Delete"}

\* C8: each call of operations::delete_path is preceded by a selection
\* response with a non-empty path set and by a confirm in the confirmation
\* dialog for that path set, on every route into FileListWrapper::update,
\* the FileList widget's own operation channel included.
C8_DeleteNeedsResponseAndConfirm ==
  \A i \in 1..Len(DeleteRuns) :
    DeleteRuns[i].calls # <<>>
      => /\ DeleteRuns[i].route = "confirmed"
         /\ DeleteRuns[i].origin \in {"delete", "properties"}
         /\ DeleteRuns[i].paths # <<>>

\* delete_path called and succeeded for a FileListOperation::Delete: no
\* selection response, no dialog, no confirm came before it
C8_Witness ==
  \E i \in 1..Len(DeleteRuns) :
    /\ DeleteRuns[i].route = "file_list"
    /\ DeleteRuns[i].calls # <<>>
    /\ DeleteRuns[i].calls[1].ok
    /\ popups = <<>>
    /\ DeleteRuns[i].calls[1].path \notin fs

\* C9: ToolbarWrapper::update sends Delete for a selection response only if
\* pending_delete_request was true when it processed the response, and the
\* flag is false afterwards; a response processed with the flag false sends
\* no Delete.
C9_DeleteOnlyWhenPending ==
  \A i \in 1..Len(Responses) :
    /\ Cardinality(DeletesIn(Responses[i].sent)) <= 1
    /\ DeletesIn(Responses[i].sent) # {}
         => /\ Responses[i].was_pending
            /\ ~Responses[i].pending_after
    /\ ~Responses[i].was_pending => DeletesIn(Responses[i].sent) = {}

\* a response turned into a Delete with the flag set and then reset
C9_Witness ==
  \E i \in 1..Len(Responses) :
    /\ Responses[i].was_pending
    /\ ~Responses[i].pending_after
    /\ Responses[i].sent = <<Delete(Responses[i].resp.paths, Responses[i].resp.origin)>>

\* C10: a selection response that answers a Properties request is never
\* turned into a Delete: each Delete the toolbar sends carries the answer to
\* the selection request of a delete press.
C10_DeleteCarriesDeleteAnswer ==
  \A i \in 1..Len(Responses) :
    \A k \in DeletesIn(Responses[i].sent) :
      /\ Responses[i].resp.origin = "delete"
      /\ Responses[i].sent[k].origin = "delete"

\* the answer to a Properties request sent on as Delete
C10_Witness ==
  \E i \in 1..Len(Responses) :
    /\ Responses[i].resp.origin = "properties"
    /\ Responses[i].resp.paths # <<>>
    /\ Responses[i].sent = <<Delete(Responses[i].resp.paths, "properties")>>

\* the selection requests of delete presses not yet consumed by the toolbar:
\* those waiting for their answer and the answers waiting for the toolbar
DeleteOriginated(q) == {k \in 1..Len(q) : q[k].origin = "delete"}
OutstandingDeleteRequests ==
  Cardinality(DeleteOriginated(chan.selected_paths_request_rx))
    + Cardinality(DeleteOriginated(chan.selected_paths_response_rx))

\* C11: however often the Delete button's closure is evaluated while a
\* delete is pending, one selection request is sent for it, so at most one
\* selection request of a delete press is outstanding at any time.
C11_OneOutstandingDeleteRequest == OutstandingDeleteRequests <= 1

\* a second selection request of a delete press sent while the first is
\* still unanswered: the answer to a Properties request reset the flag
C11_Witness ==
  /\ ghost.step = "ToolbarWrapper"
  /\ Cardinality(DeleteOriginated(chan.selected_paths_request_rx)) = 2
  /\ toolbar.pending_delete_request
  /\ \E i \in 1..Len(Responses) :
       Responses[i].resp.origin = "properties" /\ DeletesIn(Responses[i].sent) # {}

\* C12: an empty selection response answering a delete press is discarded
\* without a Delete request and the pending delete flag is cleared, so that
\* the next delete press sends a new selection request.
C12_EmptyResponseClearsFlag ==
  \A i \in 1..Len(Responses) :
    (Responses[i].resp.paths = <<>> /\ Responses[i].resp.origin = "delete"
       /\ Responses[i].was_pending)
      => /\ Responses[i].sent = <<>>
         /\ ~Responses[i].pending_after

\* the empty answer to a delete press processed: nothing sent, and the flag
\* still set with no selection request of a delete press under way
C12_Witness ==
  /\ \E i \in 1..Len(Responses) :
       /\ Responses[i].resp = [paths |-> <<>>, origin |-> "delete"]
       /\ Responses[i].was_pending
       /\ Responses[i].pending_after
       /\ Responses[i].sent = <<>>
  /\ toolbar.pending_delete_request
  /\ OutstandingDeleteRequests = 0

\* the delete runs of a log that took a confirmed path set
ConfirmedRuns(runs) == SelectSeq(runs, LAMBDA r : r.route = "confirmed")

\* C13: cancelling the confirmation dialog has no side effects:
\* pending_delete_confirmation is not set, delete_path is not called, no
\* status message is sent and the file list is not refreshed; the next
\* FileListWrapper tick finds nothing confirmed and deletes nothing for it.
C13_CancelHasNoSideEffects ==
  [][/\ ghost'.step = "cancel"
          => /\ file_list' = file_list
             /\ fs' = fs
             /\ chan' = chan
             /\ ghost'.delete_runs = <<>>
             /\ ghost'.set_paths = <<>>
     /\ (ghost'.step = "FileListWrapper" /\ ~file_list.pending_delete_confirmation.some)
          => ConfirmedRuns(ghost'.delete_runs) = <<>>]_vars

\* a dialog cancelled: its popup is gone, nothing is confirmed, every file
\* is still there
C13_Witness ==
  /\ ghost.step = "cancel"
  /\ popups = <<>>
  /\ ~file_list.pending_delete_confirmation.some
  /\ Files \subseteq fs
  /\ chan.status_rx = <<>>

\* C14: each confirm stores the path set of its dialog into
\* pending_delete_confirmation, the next FileListWrapper tick takes it and
\* runs the delete for that set once; no confirmed set is lost (replaced
\* before it is taken) and none is executed twice.
C14_ConfirmedSetRunsOnce ==
  [][/\ ghost'.step = "confirm"
          => /\ \E k \in 1..Len(popups) :
                  file_list'.pending_delete_confirmation = Some(popups[k])
             /\ file_list.pending_delete_confirmation.some
                  => file_list'.pending_delete_confirmation
                       = file_list.pending_delete_confirmation
     /\ ghost'.step = "FileListWrapper"
          => /\ ~file_list'.pending_delete_confirmation.some
             /\ Len(ConfirmedRuns(ghost'.delete_runs))
                  = IF file_list.pending_delete_confirmation.some THEN 1 ELSE 0
             /\ \A i \in 1..Len(ConfirmedRuns(ghost'.delete_runs)) :
                  ConfirmedRuns(ghost'.delete_runs)[i].paths
                    = file_list.pending_delete_confirmation.val.paths]_vars

\* a confirm that replaced a different confirmed path set before any
\* FileListWrapper tick had taken it
C14_Witness ==
  /\ ghost.step = "confirm"
  /\ ghost.overwritten.some
  /\ ghost.overwritten.val.paths # file_list.pending_delete_confirmation.val.paths

\* C15: at most one delete confirmation is outstanding at any time: never
\* more than one confirmation dialog open, never more than one path set
\* awaiting confirmation.
C15_OneConfirmationOutstanding == Len(popups) <= 1

\* a second dialog opened by a FileListWrapper tick while the first is
\* still unanswered
C15_Witness ==
  /\ ghost.step = "FileListWrapper"
  /\ Len(popups) = 2
  /\ popups[1].paths # <<>>
  /\ popups[2].paths # <<>>

Last(q) == q[Len(q)]

\* C16: executing the confirmed Delete(paths) calls delete_path on the paths
\* in order and stops at the first failure: later paths are not attempted;
\* the status is the first error on failure and the item count on full
\* success; the file list is refreshed (set_path(current path)) either way.
C16_DeleteStopsAtFirstFailure ==
  [][(ghost'.step = "FileListWrapper" /\ file_list.pending_delete_confirmation.some)
       => LET paths == file_list.pending_delete_confirmation.val.paths
              run == Last(ghost'.delete_runs)
              calls == run.calls
              failed == \E k \in 1..Len(calls) : ~calls[k].ok
          IN /\ run.route = "confirmed" /\ run.paths = paths
             /\ Len(calls) <= Len(paths)
             /\ \A k \in 1..Len(calls) : calls[k].path = paths[k]
             /\ \A k \in 1..(Len(calls) - 1) : calls[k].ok
             /\ ~failed => Len(calls) = Len(paths)
             /\ \A k \in 1..Len(calls) : calls[k].ok => calls[k].path \notin fs'
             /\ Len(ghost'.delete_runs) = 1
                  => fs' = fs \ {calls[k].path : k \in {j \in 1..Len(calls) : calls[j].ok}}
             /\ chan'.status_rx # <<>>
             /\ IF failed
                  THEN starts_with_Error(Last(chan'.status_rx))
                  ELSE Last(chan'.status_rx) = DeletedText(Len(paths))
             /\ ghost'.set_paths # <<>>
             /\ Last(ghost'.set_paths) = file_list'.current_path
             /\ file_list'.entries = children(fs', file_list'.current_path)]_vars

\* Delete([a.txt, b.txt]) with a.txt already gone: one failed call, b.txt
\* not attempted and still there, an error status, the list refreshed
C16_Witness ==
  /\ ghost.step = "FileListWrapper"
  /\ ghost.delete_runs # <<>>
  /\ Last(ghost.delete_runs).route = "confirmed"
  /\ Last(ghost.delete_runs).paths = <<FileA, FileB>>
  /\ Last(ghost.delete_runs).calls = <<[path |-> FileA, ok |-> FALSE]>>
  /\ FileB \in fs
  /\ chan.status_rx # <<>>
  /\ starts_with_Error(Last(chan.status_rx))
  /\ ghost.set_paths # <<>>

\* --------------------------------------------------------------- C17
\* the operations of one kind handled by the tick that has just run
Handled(kind) ==
  {n \in 1..Len(ghost.ops) : ghost.ops[n].op.op = kind}

IsError(msg) == msg.kind = "Error: {}"

\* C17: a CreateDirectory { parent, name } request is carried out by the tick
\* that drains it, with no dialog opened: create_directory(parent.join(name))
\* runs once; when it succeeds the directory is on the disk, one "Created
\* folder" status is sent and the file list is re-applied to its current path,
\* so a directory created in the listed directory is among its entries; when
\* it fails the disk is unchanged, one "Error: ..." status is sent and the
\* file list is not refreshed.
C17_CreateDirectoryOutcome ==
  \A n \in Handled("CreateDirectory") :
    LET e == ghost.ops[n]
        new_dir == Append(e.op.parent, e.op.name)
        created == new_dir \notin e.fs_before /\ e.op.parent \in e.fs_before
    IN /\ e.popups_same
       /\ Len(e.status) = 1
       /\ IF created
            THEN /\ e.fs_after = e.fs_before \cup {new_dir}
                 /\ e.status[1] = CreatedText(e.op.name)
                 /\ e.set_paths = <<e.file_list_before.current_path>>
                 /\ e.file_list_after.current_path = e.file_list_before.current_path
                 /\ e.op.parent = e.file_list_before.current_path
                      => new_dir \in e.file_list_after.entries
            ELSE /\ e.fs_after = e.fs_before
                 /\ IsError(e.status[1])
                 /\ e.set_paths = <<>>
                 /\ e.file_list_after = e.file_list_before

\* both outcomes in one tick: the New Folder of the toolbar created in the
\* listed directory, and a request under a missing parent refused
C17_Witness ==
  /\ ghost.step = "FileListWrapper"
  /\ \E n, m \in Handled("CreateDirectory") :
       /\ ghost.ops[n].fs_after # ghost.ops[n].fs_before
       /\ ghost.ops[n].op.parent = ghost.ops[n].file_list_before.current_path
       /\ ghost.ops[m].fs_after = ghost.ops[m].fs_before
       /\ IsError(ghost.ops[m].status[1])

\* --------------------------------------------------------------- C18
\* C18: a Rename { from, to } request calls rename_path(from, to) once; when
\* it succeeds the subtree of `from` is at `to`, one "Renamed successfully"
\* status is sent and the file list is re-applied to its current path; when it
\* fails the disk is unchanged, one "Error: ..." status is sent and the file
\* list is not refreshed.
C18_RenameOutcome ==
  \A n \in Handled("Rename") :
    LET e == ghost.ops[n]
        r == rename_path(e.fs_before, e.op.from, e.op.to)
    IN /\ e.popups_same
       /\ Len(e.status) = 1
       /\ e.fs_after = r.disk
       /\ IF r.ok
            THEN /\ e.status[1] = RenamedText
                 /\ e.set_paths = <<e.file_list_before.current_path>>
                 /\ e.file_list_after.current_path = e.file_list_before.current_path
                 /\ e.file_list_after.entries =
                      children(e.fs_after, e.file_list_after.current_path)
            ELSE /\ e.fs_after = e.fs_before
                 /\ IsError(e.status[1])
                 /\ e.set_paths = <<>>
                 /\ e.file_list_after = e.file_list_before

\* one tick renames a listed directory, so that the refreshed entries differ,
\* and refuses another rename
C18_Witness ==
  /\ ghost.step = "FileListWrapper"
  /\ \E n, m \in Handled("Rename") :
       /\ ghost.ops[n].fs_after # ghost.ops[n].fs_before
       /\ ghost.ops[n].file_list_after.entries # ghost.ops[n].file_list_before.entries
       /\ ghost.ops[m].fs_after = ghost.ops[m].fs_before
       /\ IsError(ghost.ops[m].status[1])

\* --------------------------------------------------------------- C19
\* C19: a Properties(paths) request only reports: the disk, the navigation
\* history and the file list (path, entries, selection, pending confirmation)
\* are as before, no dialog is opened, set_path is not called, and the one
\* effect is the status "Properties functionality available via right-click".
C19_PropertiesOnlyReports ==
  \A n \in Handled("Properties") :
    LET e == ghost.ops[n]
    IN /\ e.fs_after = e.fs_before
       /\ e.navigation_same
       /\ e.popups_same
       /\ e.file_list_after = e.file_list_before
       /\ e.set_paths = <<>>
       /\ e.status = <<PropertiesText>>

\* a tick that handled a Properties request for paths that are on the disk
C19_Witness ==
  /\ ghost.step = "FileListWrapper"
  /\ \E n \in Handled("Properties") :
       /\ ghost.ops[n].op.paths # <<>>
       /\ \A k \in 1..Len(ghost.ops[n].op.paths) : ghost.ops[n].op.paths[k] \in fs

\* --------------------------------------------------------------- C20
\* a FileListWrapper tick that starts with the canonical path different from
\* the FileList's path, the FileList not navigating by itself
StaleFileListTick ==
  /\ ghost'.step = "FileListWrapper"
  /\ ~ghost'.internal_nav.some
  /\ navigation.current_path.value # file_list.current_path

NavigateToCalls ==
  {n \in CallIndexes : Calls[n].op = "navigate_to"}

\* C20 as stated: in such a tick the canonical path is written into the
\* FileList, navigate_to is not called with the FileList's old path, and
\* path_history and history_position after the tick are those before it
\* (those right after the go_back / go_forward).
C20_WriteDownAlwaysWins ==
  [][StaleFileListTick =>
       /\ ghost'.set_paths # <<>>
       /\ \A n \in NavigateToCalls' : Calls'[n].arg # Some(file_list.current_path)
       /\ SameHistory(navigation', navigation)]_vars

\* C20, restricted to a tick that finds no sidebar navigation queued and whose
\* canonical path is on the disk: the first set_path of the tick carries the
\* canonical path, every set_path of the tick does, the tick makes no
\* navigate_to call at all, the FileList ends on the canonical path and the
\* history is the one the tick started with.
C20_WriteDownWins ==
  [][(/\ StaleFileListTick
      /\ chan.sidebar_navigation_rx = <<>>
      /\ exists(fs, navigation.current_path.value)) =>
       /\ ghost'.set_paths # <<>>
       /\ \A k \in 1..Len(ghost'.set_paths) :
            ghost'.set_paths[k] = navigation.current_path.value
       /\ Calls' = <<>>
       /\ file_list'.current_path = navigation.current_path.value
       /\ SameHistory(navigation', navigation)]_vars

\* after a go_back: a tick with no navigation of the FileList, no operation
\* and no delete wrote the canonical path down and left the history with its
\* forward entry
C20_Witness ==
  /\ ghost.step = "FileListWrapper"
  /\ ~ghost.internal_nav.some
  /\ ghost.ops = <<>> /\ ghost.delete_runs = <<>>
  /\ ghost.set_paths = <<navigation.current_path.value>>
  /\ Calls = <<>>
  /\ can_go_forward(navigation)
  /\ file_list.current_path = EntryAt(navigation)

\* --------------------------------------------------------------- C21
\* the canonical path the tick reads after draining the sidebar channel: each
\* queued path is passed to navigate_to, so the last one is the canonical path
NavPathOfTick ==
  IF chan.sidebar_navigation_rx = <<>>
    THEN navigation.current_path.value
    ELSE chan.sidebar_navigation_rx[Len(chan.sidebar_navigation_rx)]

\* a FileListWrapper tick in whose update step the FileList navigated by itself
OwnNavigationTick ==
  /\ ghost'.step = "FileListWrapper"
  /\ ghost'.internal_nav.some

\* the tick called navigate_to(d), d is the current history entry and the
\* signal's value, and there is no forward history
WrittenUp(d) ==
  /\ \E n \in NavigateToCalls : Calls[n].arg = Some(d)
  /\ EntryAt(navigation) = d
  /\ navigation.current_path.value = d
  /\ ~can_go_forward(navigation)

\* C21 as stated: whenever the FileList changes its own path during its update
\* step, the same tick calls navigate_to with that path, which becomes the
\* current history entry with no forward history.
C21_OwnNavigationAlwaysWrittenUp ==
  [][OwnNavigationTick => WrittenUp(ghost.internal_nav.val)']_vars

\* C21, for a path that is on the disk and is not the canonical path the tick
\* read: the tick calls navigate_to with it, it is the current history entry,
\* the signal's value and the FileList's path, and forward history is gone.
C21_OwnNavigationWrittenUp ==
  [][(/\ OwnNavigationTick
      /\ exists(fs, ghost'.internal_nav.val)
      /\ ghost'.internal_nav.val # NavPathOfTick) =>
       /\ WrittenUp(ghost.internal_nav.val)'
       /\ file_list'.current_path = ghost'.internal_nav.val]_vars

\* a double-click into a directory after a go_back: the tick that discarded
\* the forward entry
C21_Witness ==
  /\ ghost.step = "FileListWrapper"
  /\ ghost.internal_nav.some
  /\ WrittenUp(ghost.internal_nav.val)
  /\ \E n \in NavigateToCalls :
       /\ Calls[n].arg = ghost.internal_nav
       /\ can_go_forward(Calls[n].pre)

\* --------------------------------------------------------------- C22
\* the two paths agree, and the step made no set_path, no call of the history
\* and left the history as it was
NothingToReconcile ==
  /\ navigation.current_path.value = file_list.current_path
  /\ ghost'.set_paths = <<>>
  /\ ghost'.nav_calls = <<>>
  /\ SameHistory(navigation', navigation)

DisplayedPathOfTick ==
  IF ghost'.internal_nav.some THEN ghost'.internal_nav.val ELSE NavPathOfTick

\* r is the closest ancestor of p that is on the disk
IsNearestExisting(disk, p, r) ==
  /\ IsPrefix(r, p) /\ r \in disk
  /\ \A k \in (Len(r) + 1)..Len(p) : SubSeq(p, 1, k) \notin disk

\* the history calls of the tick made after the sidebar queue was drained
\* that changed the history
EntriesAddedByTick ==
  {n \in CallIndexes' :
     /\ n > Len(chan.sidebar_navigation_rx)
     /\ \/ Calls'[n].post.path_history # Calls'[n].pre.path_history
        \/ Calls'[n].post.history_position # Calls'[n].pre.history_position}

\* a FileListWrapper tick that finds the displayed path gone
VanishedTick ==
  /\ ghost'.step = "FileListWrapper"
  /\ ~exists(fs, DisplayedPathOfTick)

\* the canonical path and the FileList's path are r, r is the current history
\* entry, the entries added went to r, no status was sent, no popup opened
RecoveredTo(r) ==
  /\ navigation'.current_path.value = r
  /\ file_list'.current_path = r
  /\ EntryAt(navigation') = r
  /\ \A n \in EntriesAddedByTick :
       Calls'[n].op = "navigate_to" /\ Calls'[n].arg = Some(r)
  /\ chan'.status_rx = chan.status_rx
  /\ popups' = popups

\* C23 as stated: a tick that finds the displayed path gone makes the closest
\* existing ancestor the canonical path and the FileList's path, adds exactly
\* one history entry for it and produces no error status and no dialog.
C23_RecoveryAlwaysAddsOneEntry ==
  [][VanishedTick =>
       \E r \in fs :
         /\ IsNearestExisting(fs, DisplayedPathOfTick, r)
         /\ RecoveredTo(r)
         /\ Cardinality(EntriesAddedByTick) = 1]_vars

\* C23, with the entry counted only when the ancestor is not the canonical
\* path already: the FileList may have navigated by itself into a directory
\* that is gone, below the canonical path; then no entry is added.
C23_RecoveryAddsOneEntry ==
  [][VanishedTick =>
       \E r \in fs :
         /\ IsNearestExisting(fs, DisplayedPathOfTick, r)
         /\ RecoveredTo(r)
         /\ Cardinality(EntriesAddedByTick) =
              IF r = NavPathOfTick THEN 0 ELSE 1]_vars

\* the displayed directory went away with its parent: the tick walked two
\* levels up and added the entry
C23_Witness ==
  /\ ghost.step = "FileListWrapper"
  /\ ~ghost.internal_nav.some
  /\ DocsA \notin fs /\ Docs \notin fs
  /\ \E n \in NavigateToCalls :
       /\ Calls[n].arg = Some(Home)
       /\ EntryAt(Calls[n].pre) = DocsA
       /\ Calls[n].post.history_position = Calls[n].pre.history_position + 1
  /\ file_list.current_path = Home
  /\ navigation.current_path.value = Home

\* --------------------------------------------------------------- C24
\* the walk started on the path the FileList displays
WalkOfDisplayed == recovery_loop(fs, file_list.current_path, 0)

\* C24: for every starting path, absolute, relative or empty, the ancestor
\* walk ends after at most as many steps as the path has components; it ends
\* on a prefix of the path that exists, is "/" or has no parent, every step
\* dropped one component, and no path it left behind existed.
C24_WalkTerminates ==
  LET p == file_list.current_path
      r == WalkOfDisplayed.path
      n == WalkOfDisplayed.steps
  IN /\ n <= Len(p)
     /\ IsPrefix(r, p) /\ Len(r) = Len(p) - n
     /\ exists(fs, r) \/ r = Root \/ ~parent(r).some
     /\ \A k \in (Len(r) + 1)..Len(p) : ~exists(fs, SubSeq(p, 1, k))

\* a relative path none of whose ancestors exists: the walk made as many
\* steps as the path has components and stopped on the empty path
C24_Witness ==
  /\ file_list.current_path = RelAB
  /\ WalkOfDisplayed = [path |-> <<>>, steps |-> 2]
  /\ ghost.step = "FileListWrapper"

\* --------------------------------------------------------------- C25
\* calls is the log of applying the queued actions q in order, one after the
\* other, to the history n: each call starts from the history the one before
\* it left (Up at the root makes no call)
RECURSIVE AppliedInOrder(_, _, _)
AppliedInOrder(n, q, calls) ==
  IF q = <<>> THEN calls = <<>>
  ELSE LET a == Head(q)
           c == Head(calls)
       IN IF a.kind = "Up" /\ ~parent_path(n).some
            THEN AppliedInOrder(n, Tail(q), calls)
            ELSE /\ calls # <<>>
                 /\ SameHistory(c.pre, n)
                 /\ CASE a.kind = "Back" -> c.op = "go_back"
                      [] a.kind = "Forward" -> c.op = "go_forward"
                      [] a.kind = "Up" ->
                           c.op = "navigate_to" /\ c.arg = parent_path(n)
                      [] a.kind = "Home" ->
                           c.op = "navigate_to" /\ c.arg = Some(EnvHome)
                      [] a.kind = "NavigateTo" ->
                           c.op = "navigate_to" /\ c.arg = Some(a.path)
                 /\ AppliedInOrder(c.post, Tail(q), Tail(calls))

\* every queued path was passed to navigate_to, in arrival order
PassedInOrder(q, calls) ==
  /\ Len(calls) >= Len(q)
  /\ \A k \in 1..Len(q) :
       /\ calls[k].op = "navigate_to" /\ calls[k].arg = Some(q[k])
       /\ calls[k].post.current_path.value = q[k]
       /\ k > 1 => SameHistory(calls[k].pre, calls[k - 1].post)

\* C25: a FileListWrapper tick leaves the sidebar queue empty, having passed
\* every queued path to navigate_to in arrival order before it reads the
\* canonical path (its write-down carries the last queued path); a
\* ToolbarWrapper tick leaves its queue empty, having applied every queued
\* NavigationAction in arrival order before it computes the button states.
C25_QueuesDrainedInOrder ==
  [][/\ ghost'.step = "FileListWrapper" =>
          /\ chan'.sidebar_navigation_rx = <<>>
          /\ PassedInOrder(chan.sidebar_navigation_rx, Calls')
          /\ (chan.sidebar_navigation_rx # <<>> /\
              NavPathOfTick # file_list.current_path) =>
                /\ ghost'.set_paths # <<>>
                /\ ghost'.set_paths[1] = NavPathOfTick
     /\ ghost'.step = "ToolbarWrapper" =>
          /\ chan'.toolbar_navigation_rx = <<>>
          /\ AppliedInOrder(navigation, chan.toolbar_navigation_rx, Calls')
          /\ toolbar'.can_go_back = can_go_back(navigation')
          /\ toolbar'.can_go_forward = can_go_forward(navigation')]_vars

\* a FileListWrapper tick that drained two different sidebar selections and
\* ended on the second
C25_Witness ==
  /\ ghost.step = "FileListWrapper"
  /\ Len(Calls) >= 2
  /\ Calls[1].op = "navigate_to" /\ Calls[2].op = "navigate_to"
  /\ Calls[1].arg # Calls[2].arg
  /\ Calls[2].post.path_history # Calls[1].post.path_history
  /\ Some(file_list.current_path) = Calls[2].arg
  /\ chan.sidebar_navigation_rx = <<>>

\* --------------------------------------------------------------- C26
\* C26: no channel send and no directory enumeration is made while the
\* NavigationState mutex is held: the step that has just run made none.
C26_NoEffectUnderLock == ghost.under_lock = <<>>

\* the toolbar tick that handled New Folder: the CreateDirectory request went
\* out on operation_rx with the guard of navigation.lock() alive
C26_Witness ==
  /\ ghost.step = "ToolbarWrapper"
  /\ \E k \in 1..Len(ghost.under_lock) :
       ghost.under_lock[k] = [effect |-> "send", on |-> "operation_rx"]
  /\ chan.operation_rx # <<>>
  /\ chan.operation_rx[Len(chan.operation_rx)].op = "CreateDirectory"

\* --------------------------------------------------------------- C27
\* what one call of the filesystem collaborator makes of the disk for request
\* op: the disk after it and whether it failed
OneCall(disk, op) ==
  CASE op.op = "CreateDirectory" ->
         LET c == create_directory(disk, Append(op.parent, op.name))
         IN [disk |-> c.disk, failed |-> ~c.ok, called |-> TRUE]
    [] op.op = "Rename" ->
         LET c == rename_path(disk, op.from, op.to)
         IN [disk |-> c.disk, failed |-> ~c.ok, called |-> TRUE]
    [] OTHER -> [disk |-> disk, failed |-> FALSE, called |-> FALSE]

\* the status messages of all handled operations, in order
RECURSIVE StatusOfOps(_)
StatusOfOps(ops) ==
  IF ops = <<>> THEN <<>> ELSE Head(ops).status \o StatusOfOps(Tail(ops))

\* C27: a FileListWrapper tick takes every request off operation_rx and
\* handles each exactly once, in order: request k starts from the disk request
\* k - 1 left and leaves the disk one call of the collaborator makes of it (no
\* call for Properties and Delete), a failed call sends exactly one "Error:
\* ..." status and changes nothing, and the requests behind it are handled in
\* the same tick; the statuses sent are those of the requests, in order.
C27_EachRequestHandledOnce ==
  [][ghost'.step = "FileListWrapper" =>
       LET queued == chan.operation_rx
           ops == ghost'.ops
       IN /\ chan'.operation_rx = <<>>
          /\ Len(ops) = Len(queued)
          /\ \A k \in 1..Len(ops) :
               LET e == ops[k]
                   c == OneCall(e.fs_before, e.op)
               IN /\ e.op = queued[k]
                  /\ e.fs_before = IF k = 1 THEN fs ELSE ops[k - 1].fs_after
                  /\ e.fs_after = c.disk
                  /\ c.failed => /\ Len(e.status) = 1 /\ IsError(e.status[1])
                                 /\ e.fs_after = e.fs_before
                  /\ ~c.failed => \A m \in 1..Len(e.status) : ~IsError(e.status[m])
                  /\ Len(e.status) = IF e.op.op = "Delete" THEN 0 ELSE 1
          /\ ops # <<>> => fs' = ops[Len(ops)].fs_after
          /\ chan'.status_rx = chan.status_rx \o StatusOfOps(ops)]_vars

\* a tick that handled a request that failed and, behind it, one that changed
\* the disk
C27_Witness ==
  /\ ghost.step = "FileListWrapper"
  /\ \E k \in 1..Len(ghost.ops) :
       /\ k < Len(ghost.ops)
       /\ ghost.ops[k].status # <<>> /\ IsError(ghost.ops[k].status[1])
       /\ ghost.ops[k + 1].fs_after # ghost.ops[k + 1].fs_before

\* --------------------------------------------------------------- C28
\* the 3-second window of the message on display is open
WindowOpen ==
  /\ status_bar.status_message_timeout.some
  /\ status_bar.status_message_timeout.val <= StatusTimeoutSecs

\* C28: a StatusBarWrapper tick that finds messages queued ends with the
\* queue empty, the last message queued on display and its window restarted;
\* a tick that finds none while the window is open leaves the text on display
\* alone, whatever the status tip of the framework and the navigation path
\* are; no other step writes the status text.
C28_NewestStatusWins ==
  [][/\ (ghost'.step = "StatusBarWrapper" /\ chan.status_rx # <<>>) =>
          /\ chan'.status_rx = <<>>
          /\ status_bar'.status_text = Last(chan.status_rx)
          /\ status_bar'.status_message_timeout = Some(0)
     /\ (ghost'.step = "StatusBarWrapper" /\ chan.status_rx = <<>> /\ WindowOpen) =>
          status_bar' = status_bar
     /\ ghost'.step # "StatusBarWrapper" =>
          status_bar'.status_text = status_bar.status_text]_vars

\* a message of the pipeline still on display one second or more after it was
\* received, the navigation path having moved on since
C28_Witness ==
  /\ ghost.step = "StatusBarWrapper"
  /\ WindowOpen
  /\ status_bar.status_message_timeout.val >= 1
  /\ status_bar.status_text \in {RenamedText, PropertiesText}
  /\ navigation.current_path.value # Home

\* --------------------------------------------------------------- C29
\* the path without its last component
DirName(p) == SubSeq(p, 1, Len(p) - 1)

\* the tick made no history call and left the history as it was
UpDidNothing ==
  Calls' = <<>> /\ SameHistory(navigation', navigation)

\* the first history call of the tick is navigate_to(parent of the current
\* entry), and the parent is the current entry after it
UpNavigatedToParent ==
  /\ Calls' # <<>>
  /\ Calls'[1].op = "navigate_to"
  /\ Calls'[1].arg = Some(DirName(EntryAt(navigation)))
  /\ EntryAt(Calls'[1].post) = DirName(EntryAt(navigation))
  /\ Calls'[1].post.current_path.value = DirName(EntryAt(navigation))

TheReceiver ==
  IF ghost.takes = <<>> THEN sidebar.navigation_rx ELSE ghost.takes[1]

\* C30: the sidebar holds its receiver until the first call of
\* take_navigation_receiver, which returns it; every later call returns None;
\* whatever builder calls were made before or after, the callback of the
\* inner sidebar sends on the channel of that receiver, and a selected item's
\* path is appended to it.
C30_ReceiverTakenOnce ==
  [][/\ TheReceiver'.some
     /\ sidebar'.navigation_rx.some <=> ghost'.takes = <<>>
     /\ \A i \in 2..Len(ghost'.takes) : ~ghost'.takes[i].some
     /\ TheReceiver' = TheReceiver
     /\ sidebar'.inner.on_item_selected = TheReceiver'.val
     /\ ghost'.step = "on_item_selected" =>
          \E p \in sidebar.inner.items :
            chan'[TheReceiver.val] = Append(chan[TheReceiver.val], p)]_vars

\* an item is selected after two calls of take_navigation_receiver and after
\* builder calls that left Bookmarks and Devices on, and its path is the second
\* one waiting in the channel
C30_Witness ==
  /\ ghost.step = "on_item_selected"
  /\ Len(ghost.takes) = 2
  /\ ghost.takes[1] = Some(SidebarChannel) /\ ghost.takes[2] = None
  /\ sidebar.config.show_bookmarks /\ sidebar.config.show_devices
  /\ Len(chan[SidebarChannel]) = 2

\* --------------------------------------------------------------- C31
\* the NavigationState as the tick's processing of the queued actions leaves it
AfterActions ==
  DrainNavigationActions(BeginStep(World, "ToolbarWrapper")).navigation

\* C31: after a ToolbarWrapper tick the can_go_back and can_go_forward signals
\* are what can_go_back() and can_go_forward() return on the history as the
\* tick's processing of the queued navigation actions left it.
C31_ButtonStatesFollowHistory ==
  [][ghost'.step = "ToolbarWrapper" =>
       /\ toolbar'.can_go_back = (AfterActions.history_position > 0)
       /\ toolbar'.can_go_forward =
            (AfterActions.history_position + 1 < Len(AfterActions.path_history))]_vars

\* a tick that applied a queued action and then ran the callback of a pressed
\* button: Back is enabled as the queued action left it, while the history at
\* the end of the tick is back at its first entry
C31_Witness ==
  /\ ghost.step = "ToolbarWrapper"
  /\ Len(Calls) = 2
  /\ Calls[1].op = "navigate_to" /\ Calls[2].op = "go_back"
  /\ toolbar.can_go_back /\ ~toolbar.can_go_forward
  /\ navigation.history_position = 0
  /\ Len(navigation.path_history) = 2

\* --------------------------------------------------------------- C32
\* C32: at the end of a FileListWrapper tick the canonical path, the entry at
\* history_position, is the file list's current path.
C32_PathsAgreeAfterTick ==
  ghost.step = "FileListWrapper" =>
    /\ EntryAt(navigation) = file_list.current_path
    /\ navigation.current_path.value = file_list.current_path


\* a tick that applied a sidebar navigation, wrote it down to the FileList,
\* saw the FileList navigate by itself into a directory that is gone, and
\* recovered to an existing ancestor
C32_Witness ==
  /\ ghost.step = "FileListWrapper"
  /\ ghost.internal_nav.some
  /\ Len(ghost.set_paths) = 3
  /\ Len(Calls) >= 2
  /\ ~exists(fs, ghost.internal_nav.val)
  /\ exists(fs, file_list.current_path)
  /\ EntryAt(navigation) = file_list.current_path

\* --------------------------------------------------------------- C33
\* the reconciler tick that follows a go_back onto an entry whose directory is
\* gone, with no sidebar navigation and no navigation of the FileList itself
ReconcilesBackOntoVanished ==
  /\ ghost'.step = "FileListWrapper"
  /\ ghost.back_from.some
  /\ ~exists(fs, EntryAt(navigation))
  /\ chan.sidebar_navigation_rx = <<>>
  /\ ~ghost'.internal_nav.some

\* C33: after a go_back onto an entry whose directory no longer exists, the
\* reconciler tick leaves history_position lower than it was before the
\* go_back.
C33_BackMakesProgress ==
  [][ReconcilesBackOntoVanished =>
       navigation'.history_position < ghost.back_from.val]_vars

\* the tick after a go_back from position 2 onto a vanished second entry: the
\* recovery navigated to the ancestor, cut the history after the vanished
\* entry and appended the ancestor, and the position is 2 again
C33_Witness ==
  /\ ghost.step = "FileListWrapper"
  /\ ghost.back_from = Some(2)
  /\ navigation.history_position = 2
  /\ Len(navigation.path_history) = 3
  /\ ~exists(fs, navigation.path_history[2])
  /\ Len(Calls) >= 1 /\ Calls[1].op = "navigate_to"
  /\ EntryAt(Calls[1].pre) = navigation.path_history[2]

\* --------------------------------------------------------------- C34
\* a StatusBarWrapper tick that finds no message queued and no window open
\* (a status tip is on display after it exactly when the framework's status
\* text was not empty)
PlainStatusTick ==
  /\ ghost'.step = "StatusBarWrapper"
  /\ chan.status_rx = <<>>
  /\ ~WindowOpen
  /\ status_bar'.status_text.kind # "tip"

\* C34: with no temporary message inside its window and no status text of
\* the framework, the StatusBarWrapper tick leaves the status text equal to
\* the canonical path, followed by the selection count when paths are
\* selected, whatever was on display before.
C34_StatusShowsPath ==
  [][PlainStatusTick => status_bar'.status_text = NavigationStatus(World)]_vars

\* the program was started on /home/Deleted and the user went up: the tick
\* finds the old path on display, and leaves it there
C34_Witness ==
  /\ ghost.step = "StatusBarWrapper"
  /\ ~WindowOpen
  /\ status_bar.status_text = Text("{}", "", DeletedDir, 0)
  /\ navigation.current_path.value = Home
  /\ file_list.current_path = Home

\* --------------------------------------------------------------- C35
\* the requests the step appended to the operation channel
SentOperations ==
  SubSeq(chan'.operation_rx, Len(chan.operation_rx) + 1, Len(chan'.operation_rx))

\* C35: a ToolbarWrapper tick that finds new_folder_requested set sends one
\* CreateDirectory request, its parent the current history entry as the
\* tick's action processing left it, and resets the flag: after the tick the
\* flag is set only if the New Folder callback ran again in the tick's inner
\* update.  A tick that finds the flag clear sends nothing.
C35_OneRequestPerFlag ==
  [][ghost'.step = "ToolbarWrapper" =>
       /\ Len(chan'.operation_rx) >= Len(chan.operation_rx)
       /\ SubSeq(chan'.operation_rx, 1, Len(chan.operation_rx)) = chan.operation_rx
       /\ toolbar'.new_folder_requested <=>
            (\E k \in DOMAIN ghost'.pressed : ghost'.pressed[k] = "new_folder_btn")
       /\ IF toolbar.new_folder_requested
            THEN \E now \in Clock :
                   SentOperations =
                     <<CreateDirectory(EntryAt(AfterActions), NewFolderName(now))>>
            ELSE SentOperations = <<>>]_vars

\* the callback ran twice in the frame before; this tick applied a queued
\* action first, sent one request for the directory the action led to, and
\* left the flag clear
C35_Witness ==
  /\ ghost.step = "ToolbarWrapper"
  /\ Len(Calls) = 1 /\ Calls[1].op = "navigate_to" /\ Calls[1].arg = Some(Root)
  /\ ghost.pressed = <<>>
  /\ ~toolbar.new_folder_requested
  /\ chan.operation_rx = <<CreateDirectory(Root, NewFolderName(1))>>
  /\ ghost.under_lock # <<>>

\* --------------------------------------------------------------- C36
\* the path lists the two executors are compared on: files and a directory,
\* in both orders, with a repeated path, with a path that may be gone
DeleteLists ==
  {<<>>} \cup {<<p>> : p \in {FileA, FileB, Docs}}
         \cup {<<p, q>> : p, q \in {FileA, FileB, Docs}}

\* the program at the point of a FileListWrapper tick where a delete runs,
\* with nothing confirmed
AtDelete ==
  [BeginStep(World, "FileListWrapper") EXCEPT
     !.file_list.pending_delete_confirmation = None]

ByFileListRoute(paths) == ExecuteFileListDelete(AtDelete, paths)

ByConfirmedRoute(paths) ==
  ExecuteConfirmedDelete(
    [AtDelete EXCEPT !.file_list.pending_delete_confirmation =
                        Some([paths |-> paths, origin |-> "toolbar"])])

\* C36: from the same state and for the same path list, the delete received
\* on the FileList's operation channel and the delete taken from
\* pending_delete_confirmation make the same delete_path calls with the same
\* results, leave the same disk, send the same status message and refresh the
\* FileList the same way.
C36_DeleteRoutesAgree ==
  \A paths \in DeleteLists :
    LET a == ByFileListRoute(paths)
        b == ByConfirmedRoute(paths)
    IN /\ a.ghost.delete_runs[1].calls = b.ghost.delete_runs[1].calls
       /\ a.fs = b.fs
       /\ a.chan = b.chan
       /\ a.file_list = b.file_list
       /\ a.ghost.set_paths = b.ghost.set_paths
       /\ a.navigation = b.navigation /\ a.popups = b.popups

\* a tick that ran both executors on the same path: the delete from the
\* FileList's channel removed it, the confirmed delete that followed failed
C36_Witness ==
  /\ ghost.step = "FileListWrapper"
  /\ Len(ghost.delete_runs) = 2
  /\ ghost.delete_runs[1].route = "file_list"
  /\ ghost.delete_runs[2].route = "confirmed"
  /\ ghost.delete_runs[1].paths = ghost.delete_runs[2].paths
  /\ ghost.delete_runs[1].paths = <<FileA>>
  /\ ghost.delete_runs[1].calls = <<[path |-> FileA, ok |-> TRUE]>>
  /\ ghost.delete_runs[2].calls = <<[path |-> FileA, ok |-> FALSE]>>

\* --------------------------------------------------------------- C37
\* C37: a LocationBarWrapper tick writes the navigation path into the text
\* input exactly when the path differs from last_synced_nav_path; on any
\* other tick the text, edited by the user or not, stays as it was; what the
\* user types in the tick's inner update is the text after it.  After the
\* tick last_synced_nav_path is the canonical path.
C37_TextSyncedOnPathChange ==
  [][ghost'.step = "LocationBarWrapper" =>
       LET nav_path == navigation.current_path.value
           written == IF nav_path # location_bar.last_synced_nav_path
                        THEN to_string_lossy(nav_path)
                        ELSE location_bar.text_input_value
       IN /\ location_bar'.text_input_value =
               IF ghost'.typed.some THEN ghost'.typed.val ELSE written
          /\ location_bar'.last_synced_nav_path = nav_path
          /\ location_bar'.last_synced_nav_path = EntryAt(navigation')]_vars

\* a tick with no typing and no change of path that found a text the user
\* had typed earlier, and left it
C37_Witness ==
  /\ ghost.step = "LocationBarWrapper"
  /\ ~ghost.typed.some
  /\ location_bar.text_input_value = "/tmp"
  /\ location_bar.last_synced_nav_path = Root
  /\ navigation.current_path.value = Root

====
